---- MODULE Spec2Model ----
(***************************************************************************)
(* The checked-AST transformation framework of the eqwalizer AST           *)
(* (crates/types_db/src/eqwalizer/transformer.rs): the Transformer trait,  *)
(* its thirteen entry points and the default structural walks.             *)
(*                                                                         *)
(* A node is a record whose "tag" field names the enum variant and whose   *)
(* other fields are the variant's struct fields, under the source's names. *)
(* Vec<_> is a sequence, a pair (k, v) is <<k, v>>, Option<_> is None or   *)
(* Some(x), Result<_, T> is Ok(v, tr) or Err(e, tr) where tr is the        *)
(* transformer (&mut self) as the call left it.                            *)
(*                                                                         *)
(* With it: the incremental diagnostic cache around                        *)
(* compute_eqwalizer_stats (crates/eqwalizer/src/analyses/mod.rs,          *)
(* specification CacheSpec), the diagnostic undefined_function             *)
(* (crates/ide/src/diagnostics/undefined_function.rs, DiagSpec), the       *)
(* indexer's line facts, span conversion and collected facts               *)
(* (crates/elp/src/bin/glean.rs, GleanSpec, SpanSpec, IndexSpec), the      *)
(* folding ranges (crates/ide/src/folding_ranges.rs, FoldSpec) and the     *)
(* loop of walk_cons taken one turn at a time (LoopSpec).                  *)
(***************************************************************************)
EXTENDS Integers, Sequences, FiniteSets, TLC

VARIABLES
    tr,      \* the transformer: which entry points it overrides, its own mutable state,
             \* and the entry-point calls now on the call stack (depth)
    entry,   \* the entry point the caller invoked ("none" before the call)
    input,   \* the node handed to that entry point
    result   \* what the entry point returned

\* The incremental diagnostic cache (crates/eqwalizer/src/analyses/mod.rs).
VARIABLES
    content, \* the database's inputs: for each (project, module), what the module's AST holds
    rev,     \* for each (project, module), how many times its content changed
    memo,    \* the memoization table: for each key the stored handle, or None
    running, \* for each key, whether a caller is computing its value
    th,      \* the callers: where each is in its lookup, what it asked at which
             \* state of the module, what it got, and what its previous call was
    execs    \* the executions of compute_eqwalizer_stats so far, in order

\* The diagnostic undefined_function (crates/ide/src/diagnostics/undefined_function.rs):
\* one run of it, from the arguments it is given to the diagnostics it leaves.
VARIABLE uf

\* The indexer's line facts (crates/elp/src/bin/glean.rs): one call of
\* line_fact, from the file it is given to the fact it returns.
VARIABLE gl

\* The indexer's span conversion (impl From<TextRange> for Location), the
\* folding ranges of a file (crates/ide/src/folding_ranges.rs) and the
\* indexer's facts as index_file collects them: one run of each.  wc holds
\* the locals of one call of walk_cons, turn by turn.
VARIABLES sp, fr, ix, wc

walk_vars == <<tr, entry, input, result>>
cache_vars == <<content, rev, memo, running, th, execs>>
more_vars == <<sp, fr, ix, wc>>
vars == <<walk_vars, cache_vars, uf, gl, more_vars>>

\* A component that takes no part in the run.
Parked == [pc |-> "parked"]
MoreParked == sp = Parked /\ fr = Parked /\ ix = Parked /\ wc = Parked

\* Largest source location of a generated node, and the number of pass targets.
MaxLoc == 2
\* Longest child list (Vec) of a generated node; a generated cons chain has up to MaxLen + 1 cells.
MaxLen == 2

Loc == 1..MaxLoc

\* The callers that look diagnostics up concurrently.
MaxThreads == 2
\* The content changes of one run.
MaxChanges == 1

Projects == {"p"}
Modules == {"m1", "m2"}
\* The cache's keys: (project_id, module).
Keys == Projects \X Modules
Threads == 1..MaxThreads

Categories ==
    {"ast", "expr", "pat", "test", "clause", "body", "guard", "form", "qualifier",
     "binary_elem", "pat_binary_elem", "record_field", "test_record_field"}

-----------------------------------------------------------------------------
(* Option and Result *)

None == [tag |-> "None"]
Some(x) == [tag |-> "Some", v |-> x]

Ok(v, t) == [ok |-> TRUE, val |-> v, tr |-> t]
Err(e, t) == [ok |-> FALSE, val |-> e, tr |-> t]

-----------------------------------------------------------------------------
(* The pass: an implementation of the trait.  It overrides the entry points *)
(* of tr.over and leaves the others to their default bodies.  An overriding *)
(* entry point records the node in the pass's own state (tr.log), and then, *)
(* by tr.mode:                                                              *)
(*   "log"      walks the node with the default walk;                       *)
(*   "fail"     returns Err for a node located at tr.target, else walks;    *)
(*   "replace"  walks, and returns another node of the category in place of *)
(*              a node located at tr.target;                                *)
(*   "shift"    walks, and moves the location of the rebuilt node.          *)

Modes == {"log", "fail", "replace", "shift"}

Shift == 10

KeyOf(cat, node) ==
    IF cat \in {"ast", "body", "guard", "qualifier", "record_field", "test_record_field"}
    THEN 0
    ELSE node.location

IsTarget(t, cat, node) == cat \in t.over /\ KeyOf(cat, node) = t.target

ShouldFail(t, cat, node) == t.mode = "fail" /\ IsTarget(t, cat, node)

Visit(cat, node) == [cat |-> cat, node |-> node]

Replacement(cat) ==
    CASE cat = "ast" -> <<>>
      [] cat = "expr" -> [tag |-> "AtomLit", location |-> 0, val |-> "rewritten"]
      [] cat = "pat" -> [tag |-> "PatWild", location |-> 0, val |-> "rewritten"]
      [] cat = "test" -> [tag |-> "TestAtom", location |-> 0, val |-> "rewritten"]
      [] cat = "clause" ->
            [location |-> 0, pats |-> <<>>, guards |-> <<>>, body |-> [exprs |-> <<>>]]
      [] cat = "body" -> [exprs |-> <<>>]
      [] cat = "guard" -> [tests |-> <<>>]
      [] cat = "form" -> [tag |-> "Module", location |-> 0, val |-> "rewritten"]
      [] cat = "qualifier" ->
            [tag |-> "Filter",
             expr |-> [tag |-> "AtomLit", location |-> 0, val |-> "rewritten"]]
      [] cat = "binary_elem" ->
            [location |-> 0, specifier |-> "rewritten",
             expr |-> [tag |-> "AtomLit", location |-> 0, val |-> "rewritten"],
             size |-> None]
      [] cat = "pat_binary_elem" ->
            [location |-> 0, specifier |-> "rewritten",
             pat |-> [tag |-> "PatWild", location |-> 0, val |-> "rewritten"],
             size |-> None]
      [] cat = "record_field" ->
            [tag |-> "RecordFieldGen",
             value |-> [tag |-> "AtomLit", location |-> 0, val |-> "rewritten"]]
      [] cat = "test_record_field" ->
            [tag |-> "TestRecordFieldGen",
             value |-> [tag |-> "TestAtom", location |-> 0, val |-> "rewritten"]]

Rewrite(t, cat, old, new) ==
    IF t.mode = "replace" /\ IsTarget(t, cat, old) THEN Replacement(cat)
    ELSE IF t.mode = "shift" /\ KeyOf(cat, old) # 0
         THEN [new EXCEPT !.location = @ + Shift]
         ELSE new

-----------------------------------------------------------------------------
(* The trait's entry points and the default walks *)

RECURSIVE Transform(_, _, _)
RECURSIVE collect(_, _, _, _)
RECURSIVE Steps(_, _, _)
RECURSIVE walk_cons_loop(_, _, _)

\* One child of a node, as the walk meets it: a node, a Vec of nodes, an
\* Option of a node, or a Vec whose elements a closure transforms.
One(cat, x) == [kind |-> "one", cat |-> cat, arg |-> x]
Many(cat, xs) == [kind |-> "many", cat |-> cat, arg |-> xs]
Opt(cat, o) == [kind |-> "opt", cat |-> cat, arg |-> o]
Kvs(kcat, vcat, kvs) == [kind |-> "kvs", cat |-> kcat, vcat |-> vcat, arg |-> kvs]
UpdateFields(fs) == [kind |-> "update_fields", cat |-> "expr", arg |-> fs]
PatFields(fs) == [kind |-> "pat_fields", cat |-> "pat", arg |-> fs]
RecDeclFields(fs) == [kind |-> "rec_decl_fields", cat |-> "expr", arg |-> fs]

\* Result::map(Some)
map_some(r) == IF r.ok THEN Ok(Some(r.val), r.tr) ELSE r

\* The optional child's failure dropped with `.ok()` instead of propagated.
map_some_ok(r) == IF r.ok THEN Ok(Some(r.val), r.tr) ELSE Ok(None, r.tr)

map_or_ok(t, cat, o) ==
    IF o.tag = "None" THEN Ok(None, t)
    ELSE map_some_ok(Transform(cat, t, o.v))

\* Option::map_or(Ok(None), |s| transformer.transform_x(s).map(Some))
map_or(t, cat, o) ==
    IF o.tag = "None" THEN Ok(None, t) ELSE map_some(Transform(cat, t, o.v))

\* .and_then(|v_trans| Ok((k_trans, v_trans)))
map_kv_pair(k_trans, v_trans) ==
    IF ~v_trans.ok THEN v_trans ELSE Ok(<<k_trans.val, v_trans.val>>, v_trans.tr)

\* .and_then(|k_trans| transformer.transform_x(v).and_then(..))
map_kv_value(vcat, kv, k_trans) ==
    IF ~k_trans.ok THEN k_trans
    ELSE map_kv_pair(k_trans, Transform(vcat, k_trans.tr, kv[2]))

\* The pair put back in (key, value) order.
map_kv_unswap(r) == IF ~r.ok THEN r ELSE Ok(<<r.val[2], r.val[1]>>, r.tr)

\* The value transformed before the key.
map_kv_value_first(t, kcat, vcat, kv) ==
    map_kv_unswap(map_kv_value(kcat, <<kv[2], kv[1]>>, Transform(vcat, t, kv[2])))

\* |(k, v)| transformer.transform_x(k).and_then(..)
map_kv(t, kcat, vcat, kv) == map_kv_value(vcat, kv, Transform(kcat, t, kv[1]))

\* The field rebuilt without the name it had.
update_field_unnamed(f, value) ==
    IF ~value.ok THEN value ELSE Ok([value |-> value.val, name |-> ""], value.tr)

\* .map(|value| RecordFieldNamed { value, name: f.name })
update_field_named(f, value) ==
    IF ~value.ok THEN value ELSE Ok([value |-> value.val, name |-> f.name], value.tr)

\* |f| transformer.transform_expr(f.value).map(..)
map_update_field(t, f) == update_field_named(f, Transform("expr", t, f.value))

\* .map(|pat| PatRecordFieldNamed { name: f.name, pat })
pat_field_named(f, pat) ==
    IF ~pat.ok THEN pat ELSE Ok([name |-> f.name, pat |-> pat.val], pat.tr)

\* |f| transformer.transform_pat(f.pat).map(..)
map_pat_field(t, f) == pat_field_named(f, Transform("pat", t, f.pat))

\* The field rebuilt without `..f`: its type is not carried over.
rec_field_untyped(f, default_value) ==
    IF ~default_value.ok THEN default_value
    ELSE Ok([f EXCEPT !.default_value = default_value.val, !.tp = "dynamic"],
            default_value.tr)

\* .map(|default_value| ExternalRecField { default_value, ..f })
rec_field_with(f, default_value) ==
    IF ~default_value.ok THEN default_value
    ELSE Ok([f EXCEPT !.default_value = default_value.val], default_value.tr)

\* |f| f.default_value.map_or(Ok(None), |val| transformer.transform_expr(val).map(Some)).map(..)
map_rec_field(t, f) == rec_field_with(f, map_or(t, "expr", f.default_value))

\* The closure a walk maps over the elements of a Vec.
MapElem(t, slot, x) ==
    CASE slot.kind = "many" -> Transform(slot.cat, t, x)
      [] slot.kind = "kvs" -> map_kv(t, slot.cat, slot.vcat, x)
      [] slot.kind = "update_fields" -> map_update_field(t, x)
      [] slot.kind = "pat_fields" -> map_pat_field(t, x)
      [] slot.kind = "rec_decl_fields" -> map_rec_field(t, x)

\* Best-effort collection: the remaining elements are still transformed after
\* an Err, and the first Err is returned at the end.
collect_next_all(slot, xs, acc, r) ==
    IF ~r.ok THEN Err(r.val, collect(r.tr, slot, Tail(xs), acc).tr)
    ELSE collect(r.tr, slot, Tail(xs), Append(acc, r.val))

\* The transformed elements collected last first.
collect_next_rev(slot, xs, acc, r) ==
    IF ~r.ok THEN r ELSE collect(r.tr, slot, Tail(xs), <<r.val>> \o acc)

\* collect, after the closure returned r for the head of xs.
collect_next(slot, xs, acc, r) ==
    IF ~r.ok THEN r ELSE collect(r.tr, slot, Tail(xs), Append(acc, r.val))

\* xs.into_iter().map(closure).collect::<Result<Vec<_>, _>>(): the elements in
\* index order, stopping at the first Err.
collect(t, slot, xs, acc) ==
    IF xs = <<>> THEN Ok(acc, t)
    ELSE collect_next(slot, xs, acc, MapElem(t, slot, Head(xs)))

Step(t, slot) ==
    CASE slot.kind = "one" -> Transform(slot.cat, t, slot.arg)
      [] slot.kind = "opt" -> map_or(t, slot.cat, slot.arg)
      [] OTHER -> collect(t, slot, slot.arg, <<>>)

\* `?` on the field expression that returned r, then the remaining ones.
Steps_next(slots, acc, r) ==
    IF ~r.ok THEN r ELSE Steps(r.tr, Tail(slots), Append(acc, r.val))

\* The field expressions of a struct literal, evaluated in the order they are
\* written, each ending in `?`.
Steps(t, slots, acc) ==
    IF slots = <<>> THEN Ok(acc, t)
    ELSE Steps_next(slots, acc, Step(t, Head(slots)))

\* Transformer::transform_ast's default body.
transform_ast_default(t, ast) == collect(t, Many("form", ast), ast, <<>>)

\* .map(|forms| Body { exprs: forms })
walk_body_node(forms) == IF ~forms.ok THEN forms ELSE Ok([exprs |-> forms.val], forms.tr)

walk_body(t, body) == walk_body_node(collect(t, Many("expr", body.exprs), body.exprs, <<>>))

walk_clause_node(clause, r) ==
    IF ~r.ok THEN r
    ELSE Ok([location |-> clause.location, pats |-> r.val[1], guards |-> r.val[2],
             body |-> r.val[3]], r.tr)

\* The guards written before the patterns in the struct literal.
walk_clause_guards_first_node(clause, r) ==
    IF ~r.ok THEN r
    ELSE Ok([location |-> clause.location, pats |-> r.val[2], guards |-> r.val[1],
             body |-> r.val[3]], r.tr)

walk_clause_guards_first(t, clause) ==
    walk_clause_guards_first_node(
        clause,
        Steps(t, <<Many("guard", clause.guards), Many("pat", clause.pats),
                   One("body", clause.body)>>, <<>>))

walk_clause(t, clause) ==
    walk_clause_node(clause,
                     Steps(t, <<Many("pat", clause.pats), Many("guard", clause.guards),
                                One("body", clause.body)>>, <<>>))

walk_guard_node(r) == IF ~r.ok THEN r ELSE Ok([tests |-> r.val[1]], r.tr)

walk_guard(t, g) == walk_guard_node(Steps(t, <<Many("test", g.tests)>>, <<>>))

\* The element rebuilt without its size.
walk_binary_elem_node_no_size(elem, r) ==
    IF ~r.ok THEN r
    ELSE Ok([location |-> elem.location, specifier |-> elem.specifier, expr |-> r.val[1],
             size |-> None], r.tr)

walk_binary_elem_node(elem, r) ==
    IF ~r.ok THEN r
    ELSE Ok([location |-> elem.location, specifier |-> elem.specifier, expr |-> r.val[1],
             size |-> r.val[2]], r.tr)

walk_binary_elem(t, elem) ==
    walk_binary_elem_node(elem,
                          Steps(t, <<One("expr", elem.expr), Opt("expr", elem.size)>>, <<>>))

\* The element rebuilt with a specifier of its own.
walk_pat_binary_elem_node_respecified(elem, r) ==
    IF ~r.ok THEN r
    ELSE Ok([pat |-> r.val[1], size |-> r.val[2], location |-> elem.location,
             specifier |-> "default"], r.tr)

walk_pat_binary_elem_node(elem, r) ==
    IF ~r.ok THEN r
    ELSE Ok([pat |-> r.val[1], size |-> r.val[2], location |-> elem.location,
             specifier |-> elem.specifier], r.tr)

walk_pat_binary_elem(t, elem) ==
    walk_pat_binary_elem_node(elem,
                              Steps(t, <<One("pat", elem.pat), Opt("expr", elem.size)>>, <<>>))

ExprLeafTags ==
    {"Var", "AtomLit", "IntLit", "FloatLit", "StringLit", "NilLit", "LocalFun", "RemoteFun",
     "RecordIndex"}

PatLeafTags ==
    {"PatWild", "PatString", "PatNil", "PatInt", "PatNumber", "PatAtom", "PatVar",
     "PatRecordIndex"}

TestLeafTags ==
    {"TestVar", "TestAtom", "TestNumber", "TestString", "TestNil", "TestRecordIndex",
     "TestBinaryLit"}

FormLeafTags ==
    {"Module", "CompileExportAll", "Export", "Import", "ExportType", "File", "ElpMetadata",
     "Behaviour", "EqwalizerNowarnFunction", "EqwalizerUnlimitedRefinement",
     "TypingAttribute", "ExternalTypeDecl", "ExternalOpaqueDecl", "ExternalFunSpec",
     "ExternalCallback", "ExternalOptionalCallbacks"}

\* The child field expressions of each arm of walk_qualifier, in the order they are evaluated.
walk_qualifier_fields(qualifier) ==
    CASE qualifier.tag = "LGenerate" -> <<One("pat", qualifier.pat), One("expr", qualifier.expr)>>
      [] qualifier.tag = "BGenerate" -> <<One("pat", qualifier.pat), One("expr", qualifier.expr)>>
      [] qualifier.tag = "MGenerate" -> <<One("pat", qualifier.k_pat), One("pat",
                qualifier.v_pat), One("expr", qualifier.expr)>>
      [] qualifier.tag = "Filter" -> <<One("expr", qualifier.expr)>>

\* The node each arm of walk_qualifier builds from the transformed children v.
walk_qualifier_node(qualifier, v) ==
    CASE qualifier.tag = "LGenerate" -> [tag |-> "LGenerate", pat |-> v[1], expr |-> v[2]]
      [] qualifier.tag = "BGenerate" -> [tag |-> "BGenerate", pat |-> v[1], expr |-> v[2]]
      [] qualifier.tag = "MGenerate" -> [tag |-> "MGenerate", k_pat |-> v[1], v_pat |-> v[2],
                expr |-> v[3]]
      [] qualifier.tag = "Filter" -> [tag |-> "Filter", expr |-> v[1]]

\* The child field expressions of each arm of walk_record_field, in the order they are evaluated.
walk_record_field_fields(field) ==
    CASE field.tag = "RecordFieldGen" -> <<One("expr", field.value)>>
      [] field.tag = "RecordFieldNamed" -> <<One("expr", field.value)>>

\* Every field rebuilt as a RecordFieldGen.
walk_record_field_node_gen(field, v) == [tag |-> "RecordFieldGen", value |-> v[1]]

\* The node each arm of walk_record_field builds from the transformed children v.
walk_record_field_node(field, v) ==
    CASE field.tag = "RecordFieldGen" -> [tag |-> "RecordFieldGen", value |-> v[1]]
      [] field.tag = "RecordFieldNamed" -> [tag |-> "RecordFieldNamed", name |-> field.name,
                value |-> v[1]]

\* The child field expressions of each arm of walk_expr, in the order they are evaluated.
walk_expr_fields(e) ==
    CASE e.tag \in ExprLeafTags -> <<>>
      [] e.tag = "Block" -> <<One("body", e.body)>>
      [] e.tag = "Match" -> <<One("pat", e.pat), One("expr", e.expr)>>
      [] e.tag = "Tuple" -> <<Many("expr", e.elems)>>
      [] e.tag = "Case" -> <<One("expr", e.expr),
                Many("clause", e.clauses)>>
      [] e.tag = "If" -> <<Many("clause", e.clauses)>>
      [] e.tag = "LocalCall" -> <<Many("expr", e.args)>>
      [] e.tag = "DynCall" -> <<One("expr", e.f), Many("expr", e.args)>>
      [] e.tag = "RemoteCall" -> <<Many("expr", e.args)>>
      [] e.tag = "DynRemoteFun" -> <<One("expr", e.module), One("expr", e.name)>>
      [] e.tag = "DynRemoteFunArity" -> <<One("expr", e.module), One("expr", e.name), One("expr",
                e.arity)>>
      [] e.tag = "Lambda" -> <<Many("clause", e.clauses)>>
      [] e.tag = "UnOp" -> <<One("expr", e.arg)>>
      [] e.tag = "BinOp" -> <<One("expr", e.arg_1), One("expr", e.arg_2)>>
      [] e.tag = "LComprehension" -> <<One("expr", e.template), Many("qualifier", e.qualifiers)>>
      [] e.tag = "BComprehension" -> <<One("expr", e.template), Many("qualifier", e.qualifiers)>>
      [] e.tag = "MComprehension" -> <<One("expr", e.k_template), One("expr", e.v_template),
                Many("qualifier", e.qualifiers)>>
      [] e.tag = "Binary" -> <<Many("binary_elem", e.elems)>>
      [] e.tag = "Catch" -> <<One("expr", e.expr)>>
      [] e.tag = "TryCatchExpr" -> <<One("body", e.try_body), Many("clause", e.catch_clauses),
                Opt("body", e.after_body)>>
      [] e.tag = "TryOfCatchExpr" -> <<One("body", e.try_body), Many("clause", e.try_clauses),
                Many("clause", e.catch_clauses), Opt("body", e.after_body)>>
      [] e.tag = "Receive" -> <<Many("clause", e.clauses)>>
      [] e.tag = "ReceiveWithTimeout" -> <<Many("clause", e.clauses), One("expr", e.timeout),
                One("body", e.timeout_body)>>
      [] e.tag = "RecordCreate" -> <<Many("record_field", e.fields)>>
      [] e.tag = "RecordUpdate" -> <<One("expr", e.expr), UpdateFields(e.fields)>>
      [] e.tag = "RecordSelect" -> <<One("expr", e.expr)>>
      [] e.tag = "MapCreate" -> <<Kvs("expr", "expr", e.kvs)>>
      [] e.tag = "MapUpdate" -> <<One("expr", e.map), Kvs("expr", "expr", e.kvs)>>
      [] e.tag = "Maybe" -> <<One("body", e.body)>>
      [] e.tag = "MaybeElse" -> <<One("body", e.body), Many("clause", e.else_clauses)>>
      [] e.tag = "MaybeMatch" -> <<One("pat", e.pat), One("expr", e.arg)>>

\* The node each arm of walk_expr builds from the transformed children v.
walk_expr_node(e, v) ==
    CASE e.tag \in ExprLeafTags -> e
      [] e.tag = "Block" -> [tag |-> "Block",
                location |-> e.location, body |-> v[1]]
      [] e.tag = "Match" -> [tag |-> "Match", location |-> e.location, pat |-> v[1],
                expr |-> v[2]]
      [] e.tag = "Tuple" -> [tag |-> "Tuple", location |-> e.location, elems |-> v[1]]
      [] e.tag = "Case" -> [tag |-> "Case",
                location |-> e.location, expr |-> v[1], clauses |-> v[2]]
      [] e.tag = "If" -> [tag |-> "If", location |-> e.location, clauses |-> v[1]]
      [] e.tag = "LocalCall" -> [tag |-> "LocalCall", location |-> e.location, id |-> e.id,
                args |-> v[1]]
      [] e.tag = "DynCall" -> [tag |-> "DynCall", location |-> e.location, f |-> v[1],
                args |-> v[2]]
      [] e.tag = "RemoteCall" -> [tag |-> "RemoteCall", location |-> e.location, id |-> e.id,
                args |-> v[1]]
      [] e.tag = "DynRemoteFun" -> [tag |-> "DynRemoteFun", location |-> e.location,
                module |-> v[1], name |-> v[2]]
      [] e.tag = "DynRemoteFunArity" -> [tag |-> "DynRemoteFunArity", location |-> e.location,
                module |-> v[1], name |-> v[2], arity |-> v[3]]
      [] e.tag = "Lambda" -> [tag |-> "Lambda", location |-> e.location, clauses |-> v[1],
                name |-> e.name]
      [] e.tag = "UnOp" -> [tag |-> "UnOp", location |-> e.location, op |-> e.op, arg |-> v[1]]
      [] e.tag = "BinOp" -> [tag |-> "BinOp", location |-> e.location, op |-> e.op,
                arg_1 |-> v[1], arg_2 |-> v[2]]
      [] e.tag = "LComprehension" -> [tag |-> "LComprehension", location |-> e.location,
                template |-> v[1], qualifiers |-> v[2]]
      [] e.tag = "BComprehension" -> [tag |-> "BComprehension", location |-> e.location,
                template |-> v[1], qualifiers |-> v[2]]
      [] e.tag = "MComprehension" -> [tag |-> "MComprehension", location |-> e.location,
                k_template |-> v[1], v_template |-> v[2], qualifiers |-> v[3]]
      [] e.tag = "Binary" -> [tag |-> "Binary", location |-> e.location, elems |-> v[1]]
      [] e.tag = "Catch" -> [tag |-> "Catch", location |-> e.location, expr |-> v[1]]
      [] e.tag = "TryCatchExpr" -> [tag |-> "TryCatchExpr", location |-> e.location,
                try_body |-> v[1], catch_clauses |-> v[2], after_body |-> v[3]]
      [] e.tag = "TryOfCatchExpr" -> [tag |-> "TryOfCatchExpr", location |-> e.location,
                try_body |-> v[1], try_clauses |-> v[2], catch_clauses |-> v[3],
                after_body |-> v[4]]
      [] e.tag = "Receive" -> [tag |-> "Receive", location |-> e.location, clauses |-> v[1]]
      [] e.tag = "ReceiveWithTimeout" -> [tag |-> "ReceiveWithTimeout", location |-> e.location,
                clauses |-> v[1], timeout |-> v[2], timeout_body |-> v[3]]
      [] e.tag = "RecordCreate" -> [tag |-> "RecordCreate", location |-> e.location,
                rec_name |-> e.rec_name, fields |-> v[1]]
      [] e.tag = "RecordUpdate" -> [tag |-> "RecordUpdate", location |-> e.location,
                rec_name |-> e.rec_name, expr |-> v[1], fields |-> v[2]]
      [] e.tag = "RecordSelect" -> [tag |-> "RecordSelect", location |-> e.location,
                rec_name |-> e.rec_name, field_name |-> e.field_name, expr |-> v[1]]
      [] e.tag = "MapCreate" -> [tag |-> "MapCreate", location |-> e.location, kvs |-> v[1]]
      [] e.tag = "MapUpdate" -> [tag |-> "MapUpdate", location |-> e.location, map |-> v[1],
                kvs |-> v[2]]
      [] e.tag = "Maybe" -> [tag |-> "Maybe", location |-> e.location, body |-> v[1]]
      [] e.tag = "MaybeElse" -> [tag |-> "MaybeElse", location |-> e.location, body |-> v[1],
                else_clauses |-> v[2]]
      [] e.tag = "MaybeMatch" -> [tag |-> "MaybeMatch", location |-> e.location, pat |-> v[1],
                arg |-> v[2]]

\* The child field expressions of each arm of walk_pat, in the order they are evaluated.
walk_pat_fields(p) ==
    CASE p.tag \in PatLeafTags -> <<>>
      [] p.tag = "PatMatch" -> <<One("pat", p.pat),
                One("pat", p.arg)>>
      [] p.tag = "PatTuple" -> <<Many("pat", p.elems)>>
      [] p.tag = "PatCons" -> <<One("pat", p.h), One("pat", p.t)>>
      [] p.tag = "PatRecord" -> <<PatFields(p.fields), Opt("pat", p.gen)>>
      [] p.tag = "PatUnOp" -> <<One("pat", p.arg)>>
      [] p.tag = "PatBinOp" -> <<One("pat", p.arg_1), One("pat", p.arg_2)>>
      [] p.tag = "PatBinary" -> <<Many("pat_binary_elem", p.elems)>>
      [] p.tag = "PatMap" -> <<Kvs("test", "pat", p.kvs)>>

\* The node each arm of walk_pat builds from the transformed children v.
walk_pat_node(p, v) ==
    CASE p.tag \in PatLeafTags -> p
      [] p.tag = "PatMatch" -> [tag |-> "PatMatch",
                pat |-> v[1], arg |-> v[2], location |-> p.location]
      [] p.tag = "PatTuple" -> [tag |-> "PatTuple", location |-> p.location, elems |-> v[1]]
      [] p.tag = "PatCons" -> [tag |-> "PatCons", location |-> p.location, h |-> v[1], t |-> v[2]]
      [] p.tag = "PatRecord" -> [tag |-> "PatRecord", location |-> p.location,
                rec_name |-> p.rec_name, fields |-> v[1], gen |-> v[2]]
      [] p.tag = "PatUnOp" -> [tag |-> "PatUnOp", location |-> p.location, op |-> p.op,
                arg |-> v[1]]
      [] p.tag = "PatBinOp" -> [tag |-> "PatBinOp", location |-> p.location, op |-> p.op,
                arg_1 |-> v[1], arg_2 |-> v[2]]
      [] p.tag = "PatBinary" -> [tag |-> "PatBinary", location |-> p.location, elems |-> v[1]]
      [] p.tag = "PatMap" -> [tag |-> "PatMap", location |-> p.location, kvs |-> v[1]]

\* The child field expressions of each arm of walk_test_record_field, in evaluation order.
walk_test_record_field_fields(f) ==
    CASE f.tag = "TestRecordFieldNamed" -> <<One("test", f.value)>>
      [] f.tag = "TestRecordFieldGen" -> <<One("test", f.value)>>

\* The node each arm of walk_test_record_field builds from the transformed children v.
walk_test_record_field_node(f, v) ==
    CASE f.tag = "TestRecordFieldNamed" -> [tag |-> "TestRecordFieldNamed", value |-> v[1],
                name |-> f.name]
      [] f.tag = "TestRecordFieldGen" -> [tag |-> "TestRecordFieldGen", value |-> v[1]]

\* The child field expressions of each arm of walk_test, in the order they are evaluated.
walk_test_fields(test) ==
    CASE test.tag \in TestLeafTags -> <<>>
      [] test.tag = "TestTuple" ->
                <<Many("test", test.elems)>>
      [] test.tag = "TestCons" -> <<One("test", test.h), One("test", test.t)>>
      [] test.tag = "TestCall" -> <<Many("test", test.args)>>
      [] test.tag = "TestRecordCreate" -> <<Many("test_record_field", test.fields)>>
      [] test.tag = "TestRecordSelect" -> <<One("test", test.rec)>>
      [] test.tag = "TestMapCreate" -> <<Kvs("test", "test", test.kvs)>>
      [] test.tag = "TestMapUpdate" -> <<One("test", test.map), Kvs("test", "test", test.kvs)>>
      [] test.tag = "TestUnOp" -> <<One("test", test.arg)>>
      [] test.tag = "TestBinOp" -> <<One("test", test.arg_1), One("test", test.arg_2)>>

\* The node each arm of walk_test builds from the transformed children v.
walk_test_node(test, v) ==
    CASE test.tag \in TestLeafTags -> test
      [] test.tag = "TestTuple" ->
                [tag |-> "TestTuple", location |-> test.location, elems |-> v[1]]
      [] test.tag = "TestCons" -> [tag |-> "TestCons", location |-> test.location, h |-> v[1],
                t |-> v[2]]
      [] test.tag = "TestCall" -> [tag |-> "TestCall", location |-> test.location, id |-> test.id,
                args |-> v[1]]
      [] test.tag = "TestRecordCreate" -> [tag |-> "TestRecordCreate", location |-> test.location,
                rec_name |-> test.rec_name, fields |-> v[1]]
      [] test.tag = "TestRecordSelect" -> [tag |-> "TestRecordSelect", location |-> test.location,
                rec |-> v[1], rec_name |-> test.rec_name, field_name |-> test.field_name]
      [] test.tag = "TestMapCreate" -> [tag |-> "TestMapCreate", location |-> test.location,
                kvs |-> v[1]]
      [] test.tag = "TestMapUpdate" -> [tag |-> "TestMapUpdate", location |-> test.location,
                map |-> v[1], kvs |-> v[2]]
      [] test.tag = "TestUnOp" -> [tag |-> "TestUnOp", location |-> test.location, op |-> test.op,
                arg |-> v[1]]
      [] test.tag = "TestBinOp" -> [tag |-> "TestBinOp", location |-> test.location,
                op |-> test.op, arg_1 |-> v[1], arg_2 |-> v[2]]

\* The child field expressions of each arm of walk_form, in the order they are evaluated.
walk_form_fields(form) ==
    CASE form.tag \in FormLeafTags -> <<>>
      [] form.tag = "FunDecl" ->
                <<Many("clause", form.clauses)>>
      [] form.tag = "ExternalRecDecl" -> <<RecDeclFields(form.fields)>>

\* The node each arm of walk_form builds from the transformed children v.
walk_form_node(form, v) ==
    CASE form.tag \in FormLeafTags -> form
      [] form.tag = "FunDecl" ->
                [tag |-> "FunDecl", location |-> form.location, id |-> form.id, clauses |-> v[1]]
      [] form.tag = "ExternalRecDecl" -> [tag |-> "ExternalRecDecl", location |-> form.location,
                name |-> form.name, file |-> form.file, fields |-> v[1]]

\* The match arm's `Ok(..)`, once its field expressions returned r.
walk_qualifier_built(qualifier, r) ==
    IF ~r.ok THEN r ELSE Ok(walk_qualifier_node(qualifier, r.val), r.tr)

walk_qualifier(t, qualifier) ==
    walk_qualifier_built(qualifier, Steps(t, walk_qualifier_fields(qualifier), <<>>))

walk_record_field_built(field, r) ==
    IF ~r.ok THEN r ELSE Ok(walk_record_field_node(field, r.val), r.tr)

walk_record_field(t, field) ==
    walk_record_field_built(field, Steps(t, walk_record_field_fields(field), <<>>))

\* The fold without `.rev()`: the cells are put back in visit order.
RECURSIVE refold_no_rev(_, _)
refold_no_rev(transformed_elems, transformed_t) ==
    IF transformed_elems = <<>> THEN transformed_t
    ELSE refold_no_rev(Tail(transformed_elems),
                       [tag |-> "Cons", location |-> transformed_elems[1][1],
                        h |-> transformed_elems[1][2], t |-> transformed_t])

\* The fold giving every cell the location of the first.
RECURSIVE refold_one_location(_, _)
refold_one_location(transformed_elems, transformed_t) ==
    IF transformed_elems = <<>> THEN transformed_t
    ELSE refold_one_location(
             SubSeq(transformed_elems, 1, Len(transformed_elems) - 1),
             [tag |-> "Cons", location |-> transformed_elems[1][1],
              h |-> transformed_elems[Len(transformed_elems)][2], t |-> transformed_t])

\* transformed_elems.into_iter().rev().fold(transformed_t, |t, (location, h)| Cons{..})
RECURSIVE refold(_, _)
refold(transformed_elems, transformed_t) ==
    IF transformed_elems = <<>> THEN transformed_t
    ELSE refold(SubSeq(transformed_elems, 1, Len(transformed_elems) - 1),
                [tag |-> "Cons", location |-> transformed_elems[Len(transformed_elems)][1],
                 h |-> transformed_elems[Len(transformed_elems)][2], t |-> transformed_t])

\* The `exp =>` arm: the terminal tail returned transformed_t.
walk_cons_return(transformed_elems, transformed_t) ==
    IF ~transformed_t.ok THEN transformed_t
    ELSE Ok(refold(transformed_elems, transformed_t.val), transformed_t.tr)

\* The terminal tail kept as it is, not passed to transform_expr.
walk_cons_tail_kept(cons, transformed_elems, h) ==
    IF ~h.ok THEN h
    ELSE IF cons.t.tag = "Cons"
         THEN walk_cons_loop(h.tr, cons.t, Append(transformed_elems, <<cons.location, h.val>>))
         ELSE Ok(refold(Append(transformed_elems, <<cons.location, h.val>>), cons.t), h.tr)

\* The tail still transformed after the head returned Err.
walk_cons_tail_best_effort(cons, transformed_elems, h) ==
    IF ~h.ok THEN Err(h.val, Transform("expr", h.tr, cons.t).tr)
    ELSE IF cons.t.tag = "Cons"
         THEN walk_cons_loop(h.tr, cons.t, Append(transformed_elems, <<cons.location, h.val>>))
         ELSE walk_cons_return(Append(transformed_elems, <<cons.location, h.val>>),
                               Transform("expr", h.tr, cons.t))

\* The rest of one turn of the loop, after the head returned h.
walk_cons_tail(cons, transformed_elems, h) ==
    IF ~h.ok THEN h
    ELSE IF cons.t.tag = "Cons"
         THEN walk_cons_loop(h.tr, cons.t, Append(transformed_elems, <<cons.location, h.val>>))
         ELSE walk_cons_return(Append(transformed_elems, <<cons.location, h.val>>),
                               Transform("expr", h.tr, cons.t))

\* One turn of the `loop` of walk_cons.
walk_cons_loop(t, cons, transformed_elems) ==
    walk_cons_tail(cons, transformed_elems, Transform("expr", t, cons.h))

walk_cons(t, c) == walk_cons_loop(t, c, <<>>)

walk_expr_built(e, r) == IF ~r.ok THEN r ELSE Ok(walk_expr_node(e, r.val), r.tr)

walk_expr(t, e) ==
    IF e.tag = "Cons" THEN walk_cons(t, e)
    ELSE walk_expr_built(e, Steps(t, walk_expr_fields(e), <<>>))

walk_pat_built(p, r) == IF ~r.ok THEN r ELSE Ok(walk_pat_node(p, r.val), r.tr)

walk_pat(t, p) == walk_pat_built(p, Steps(t, walk_pat_fields(p), <<>>))

walk_test_record_field_built(f, r) ==
    IF ~r.ok THEN r ELSE Ok(walk_test_record_field_node(f, r.val), r.tr)

walk_test_record_field(t, f) ==
    walk_test_record_field_built(f, Steps(t, walk_test_record_field_fields(f), <<>>))

walk_test_built(test, r) == IF ~r.ok THEN r ELSE Ok(walk_test_node(test, r.val), r.tr)

walk_test(t, test) == walk_test_built(test, Steps(t, walk_test_fields(test), <<>>))

walk_form_built(form, r) == IF ~r.ok THEN r ELSE Ok(walk_form_node(form, r.val), r.tr)

walk_form(t, form) == walk_form_built(form, Steps(t, walk_form_fields(form), <<>>))

\* The default body of each entry point of the trait.
Walk(cat, t, node) ==
    CASE cat = "ast" -> transform_ast_default(t, node)
      [] cat = "expr" -> walk_expr(t, node)
      [] cat = "pat" -> walk_pat(t, node)
      [] cat = "test" -> walk_test(t, node)
      [] cat = "clause" -> walk_clause(t, node)
      [] cat = "body" -> walk_body(t, node)
      [] cat = "guard" -> walk_guard(t, node)
      [] cat = "form" -> walk_form(t, node)
      [] cat = "qualifier" -> walk_qualifier(t, node)
      [] cat = "binary_elem" -> walk_binary_elem(t, node)
      [] cat = "pat_binary_elem" -> walk_pat_binary_elem(t, node)
      [] cat = "record_field" -> walk_record_field(t, node)
      [] cat = "test_record_field" -> walk_test_record_field(t, node)

\* The pass records the node in its own state; depths keeps, for each record,
\* how many entry-point calls were on the call stack when it was made.
Seen(t, cat, node) ==
    [t EXCEPT !.log = Append(@, Visit(cat, node)), !.depths = Append(@, t.depth)]

\* The override's result, once the default walk it delegates to returned r.
Rewritten(t, cat, node, r) ==
    IF ~r.ok THEN r ELSE Ok(Rewrite(t, cat, node, r.val), r.tr)

\* An entry point the pass overrides.
Override(cat, t, node) ==
    IF ShouldFail(t, cat, node) THEN Err(Visit(cat, node), Seen(t, cat, node))
    ELSE Rewritten(t, cat, node, Walk(cat, Seen(t, cat, node), node))

\* transformer.transform_<cat>(node): dynamic dispatch to the pass's method,
\* which is the override when the pass has one and the trait's default otherwise.
Dispatch(cat, t, node) ==
    IF cat \in t.over THEN Override(cat, t, node) ELSE Walk(cat, t, node)

\* A call of an entry point pushes a frame on the call stack, and its return,
\* Ok or Err, pops it.
Enter(t) == [t EXCEPT !.depth = @ + 1]
Leave(r) == [r EXCEPT !.tr.depth = @ - 1]

Transform(cat, t, node) == Leave(Dispatch(cat, Enter(t), node))

transform_ast(t, ast) == Transform("ast", t, ast)
transform_expr(t, expr) == Transform("expr", t, expr)
transform_pat(t, pat) == Transform("pat", t, pat)
transform_test(t, test) == Transform("test", t, test)
transform_clause(t, clause) == Transform("clause", t, clause)
transform_body(t, body) == Transform("body", t, body)
transform_guard(t, guard) == Transform("guard", t, guard)
transform_form(t, form) == Transform("form", t, form)
transform_qualifier(t, qualifier) == Transform("qualifier", t, qualifier)
transform_binary_elem(t, elem) == Transform("binary_elem", t, elem)
transform_pat_binary_elem(t, elem) == Transform("pat_binary_elem", t, elem)
transform_record_field(t, field) == Transform("record_field", t, field)
transform_test_record_field(t, field) == Transform("test_record_field", t, field)

-----------------------------------------------------------------------------
(* The nodes the callers hand to the entry points.  Children are taken from  *)
(* a numbered pool per category; a node's child list is the first n pool     *)
(* elements, n <= MaxLen.                                                    *)

LocAt(i) == ((i - 1) % MaxLoc) + 1
NameAt(i) == IF i % 2 = 1 THEN "a" ELSE "b"

Leaf(tag, l) == [tag |-> tag, location |-> l, val |-> tag]

E(i) ==
    CASE i % 3 = 1 -> [tag |-> "Var", location |-> LocAt(i), val |-> NameAt(i)]
      [] i % 3 = 2 -> [tag |-> "Tuple", location |-> LocAt(i),
                       elems |-> <<[tag |-> "IntLit", location |-> LocAt(i + 1), val |-> NameAt(i)]>>]
      [] i % 3 = 0 -> [tag |-> "Cons", location |-> LocAt(i),
                       h |-> [tag |-> "AtomLit", location |-> LocAt(i + 1), val |-> "ok"],
                       t |-> Leaf("NilLit", LocAt(i))]

P(i) ==
    IF i % 2 = 1
    THEN [tag |-> "PatVar", location |-> LocAt(i), val |-> NameAt(i)]
    ELSE [tag |-> "PatTuple", location |-> LocAt(i),
          elems |-> <<Leaf("PatWild", LocAt(i + 1))>>]

T(i) ==
    IF i % 2 = 1
    THEN [tag |-> "TestVar", location |-> LocAt(i), val |-> NameAt(i)]
    ELSE [tag |-> "TestUnOp", location |-> LocAt(i), op |-> "not",
          arg |-> Leaf("TestAtom", LocAt(i + 1))]

B(n) == [exprs |-> [k \in 1..(n) |-> E(k)]]
G(n) == [tests |-> [k \in 1..(n) |-> T(k)]]
C(i) == [location |-> LocAt(i), pats |-> [k \in 1..(i) |-> P(k)], guards |-> [k \in 1..(i - 1) |-> G(k)], body |-> B(i)]

Q(i) ==
    CASE i % 4 = 1 -> [tag |-> "LGenerate", pat |-> P(i), expr |-> E(i + 1)]
      [] i % 4 = 2 -> [tag |-> "Filter", expr |-> E(i)]
      [] i % 4 = 3 -> [tag |-> "MGenerate", k_pat |-> P(i), v_pat |-> P(i + 1), expr |-> E(i)]
      [] i % 4 = 0 -> [tag |-> "BGenerate", pat |-> P(i), expr |-> E(i)]

OptE(i) == IF i % 2 = 1 THEN None ELSE Some(E(i))

BE(i) == [location |-> LocAt(i), specifier |-> NameAt(i), expr |-> E(i), size |-> OptE(i)]
PBE(i) == [location |-> LocAt(i), specifier |-> NameAt(i), pat |-> P(i), size |-> OptE(i)]

RF(i) ==
    IF i % 2 = 1
    THEN [tag |-> "RecordFieldNamed", name |-> NameAt(i), value |-> E(i)]
    ELSE [tag |-> "RecordFieldGen", value |-> E(i)]

TRF(i) ==
    IF i % 2 = 1
    THEN [tag |-> "TestRecordFieldNamed", name |-> NameAt(i), value |-> T(i)]
    ELSE [tag |-> "TestRecordFieldGen", value |-> T(i)]

RFN(i) == [name |-> NameAt(i), value |-> E(i)]
PRF(i) == [name |-> NameAt(i), pat |-> P(i)]
ERF(i) == [name |-> NameAt(i), tp |-> "term", default_value |-> OptE(i + 1)]
KV(i) == <<E(i), E(i + 1)>>
TKV(i) == <<T(i), T(i + 1)>>
PKV(i) == <<T(i), P(i)>>

\* A cons chain of n cells over the first n pool elements, ending in tail.
RECURSIVE ConsChain(_, _, _)
ConsChain(i, n, tail) ==
    IF i > n THEN tail
    ELSE [tag |-> "Cons", location |-> LocAt(i), h |-> E(i), t |-> ConsChain(i + 1, n, tail)]

OptB(o, n) == IF o THEN Some(B(n)) ELSE None

ExprsOf(l, n, o) ==
    {Leaf(tag, l) : tag \in ExprLeafTags}
    \cup
    {[tag |-> "Block", location |-> l, body |-> B(n)],
     [tag |-> "Match", location |-> l, pat |-> P(n + 1), expr |-> E(n + 1)],
     [tag |-> "Tuple", location |-> l, elems |-> [k \in 1..(n) |-> E(k)]],
     [tag |-> "Cons", location |-> l, h |-> E(n + 1),
      t |-> ConsChain(1, n, IF o THEN Leaf("NilLit", l) ELSE Leaf("Var", l))],
     [tag |-> "Case", location |-> l, expr |-> E(n + 1), clauses |-> [k \in 1..(n) |-> C(k)]],
     [tag |-> "If", location |-> l, clauses |-> [k \in 1..(n) |-> C(k)]],
     [tag |-> "LocalCall", location |-> l, id |-> NameAt(n), args |-> [k \in 1..(n) |-> E(k)]],
     [tag |-> "DynCall", location |-> l, f |-> E(n + 1), args |-> [k \in 1..(n) |-> E(k)]],
     [tag |-> "RemoteCall", location |-> l, id |-> NameAt(n), args |-> [k \in 1..(n) |-> E(k)]],
     [tag |-> "DynRemoteFun", location |-> l, module |-> E(n + 1), name |-> E(n + 2)],
     [tag |-> "DynRemoteFunArity", location |-> l, module |-> E(n + 1), name |-> E(n + 2),
      arity |-> E(n + 3)],
     [tag |-> "Lambda", location |-> l, clauses |-> [k \in 1..(n) |-> C(k)], name |-> NameAt(n)],
     [tag |-> "UnOp", location |-> l, op |-> NameAt(n), arg |-> E(n + 1)],
     [tag |-> "BinOp", location |-> l, op |-> NameAt(n), arg_1 |-> E(n + 1),
      arg_2 |-> E(n + 2)],
     [tag |-> "LComprehension", location |-> l, template |-> E(n + 1),
      qualifiers |-> [k \in 1..(n) |-> Q(k)]],
     [tag |-> "BComprehension", location |-> l, template |-> E(n + 1),
      qualifiers |-> [k \in 1..(n) |-> Q(k)]],
     [tag |-> "MComprehension", location |-> l, k_template |-> E(n + 1),
      v_template |-> E(n + 2), qualifiers |-> [k \in 1..(n) |-> Q(k)]],
     [tag |-> "Binary", location |-> l, elems |-> [k \in 1..(n) |-> BE(k)]],
     [tag |-> "Catch", location |-> l, expr |-> E(n + 1)],
     [tag |-> "TryCatchExpr", location |-> l, try_body |-> B(n + 1),
      catch_clauses |-> [k \in 1..(n) |-> C(k)], after_body |-> OptB(o, n)],
     [tag |-> "TryOfCatchExpr", location |-> l, try_body |-> B(n + 1),
      try_clauses |-> [k \in 1..(n) |-> C(k)], catch_clauses |-> [k \in 1..(n) |-> C(k)],
      after_body |-> OptB(o, n)],
     [tag |-> "Receive", location |-> l, clauses |-> [k \in 1..(n) |-> C(k)]],
     [tag |-> "ReceiveWithTimeout", location |-> l, clauses |-> [k \in 1..(n) |-> C(k)],
      timeout |-> E(n + 1), timeout_body |-> B(n)],
     [tag |-> "RecordCreate", location |-> l, rec_name |-> NameAt(n),
      fields |-> [k \in 1..(n) |-> RF(k)]],
     [tag |-> "RecordUpdate", location |-> l, rec_name |-> NameAt(n), expr |-> E(n + 1),
      fields |-> [k \in 1..(n) |-> RFN(k)]],
     [tag |-> "RecordSelect", location |-> l, rec_name |-> NameAt(n),
      field_name |-> NameAt(n + 1), expr |-> E(n + 1)],
     [tag |-> "MapCreate", location |-> l, kvs |-> [k \in 1..(n) |-> KV(k)]],
     [tag |-> "MapUpdate", location |-> l, map |-> E(n + 1), kvs |-> [k \in 1..(n) |-> KV(k)]],
     [tag |-> "Maybe", location |-> l, body |-> B(n)],
     [tag |-> "MaybeElse", location |-> l, body |-> B(n), else_clauses |-> [k \in 1..(n) |-> C(k)]],
     [tag |-> "MaybeMatch", location |-> l, pat |-> P(n + 1), arg |-> E(n + 1)]}

PatsOf(l, n, o) ==
    {Leaf(tag, l) : tag \in PatLeafTags}
    \cup
    {[tag |-> "PatMatch", pat |-> P(n + 1), arg |-> P(n + 2), location |-> l],
     [tag |-> "PatTuple", location |-> l, elems |-> [k \in 1..(n) |-> P(k)]],
     [tag |-> "PatCons", location |-> l, h |-> P(n + 1),
      t |-> IF o THEN [tag |-> "PatCons", location |-> LocAt(n), h |-> P(n + 2),
                       t |-> Leaf("PatNil", l)]
            ELSE Leaf("PatVar", l)],
     [tag |-> "PatRecord", location |-> l, rec_name |-> NameAt(n), fields |-> [k \in 1..(n) |-> PRF(k)],
      gen |-> IF o THEN Some(P(n + 1)) ELSE None],
     [tag |-> "PatUnOp", location |-> l, op |-> NameAt(n), arg |-> P(n + 1)],
     [tag |-> "PatBinOp", location |-> l, op |-> NameAt(n), arg_1 |-> P(n + 1),
      arg_2 |-> P(n + 2)],
     [tag |-> "PatBinary", location |-> l, elems |-> [k \in 1..(n) |-> PBE(k)]],
     [tag |-> "PatMap", location |-> l, kvs |-> [k \in 1..(n) |-> PKV(k)]]}

TestsOf(l, n, o) ==
    {Leaf(tag, l) : tag \in TestLeafTags}
    \cup
    {[tag |-> "TestTuple", location |-> l, elems |-> [k \in 1..(n) |-> T(k)]],
     [tag |-> "TestCons", location |-> l, h |-> T(n + 1),
      t |-> IF o THEN [tag |-> "TestCons", location |-> LocAt(n), h |-> T(n + 2),
                       t |-> Leaf("TestNil", l)]
            ELSE Leaf("TestVar", l)],
     [tag |-> "TestCall", location |-> l, id |-> NameAt(n), args |-> [k \in 1..(n) |-> T(k)]],
     [tag |-> "TestRecordCreate", location |-> l, rec_name |-> NameAt(n),
      fields |-> [k \in 1..(n) |-> TRF(k)]],
     [tag |-> "TestRecordSelect", location |-> l, rec |-> T(n + 1), rec_name |-> NameAt(n),
      field_name |-> NameAt(n + 1)],
     [tag |-> "TestMapCreate", location |-> l, kvs |-> [k \in 1..(n) |-> TKV(k)]],
     [tag |-> "TestMapUpdate", location |-> l, map |-> T(n + 1), kvs |-> [k \in 1..(n) |-> TKV(k)]],
     [tag |-> "TestUnOp", location |-> l, op |-> NameAt(n), arg |-> T(n + 1)],
     [tag |-> "TestBinOp", location |-> l, op |-> NameAt(n), arg_1 |-> T(n + 1),
      arg_2 |-> T(n + 2)]}

FormsOf(l, n) ==
    {Leaf(tag, l) : tag \in FormLeafTags}
    \cup
    {[tag |-> "FunDecl", location |-> l, id |-> NameAt(n), clauses |-> [k \in 1..(n) |-> C(k)]],
     [tag |-> "ExternalRecDecl", location |-> l, name |-> NameAt(n), file |-> None,
      fields |-> [k \in 1..(n) |-> ERF(k)]]}

F(i) ==
    CASE i % 3 = 1 -> Leaf("Module", LocAt(i))
      [] i % 3 = 2 -> [tag |-> "FunDecl", location |-> LocAt(i), id |-> NameAt(i),
                       clauses |-> [k \in 1..(1) |-> C(k)]]
      [] i % 3 = 0 -> [tag |-> "ExternalRecDecl", location |-> LocAt(i), name |-> NameAt(i),
                       file |-> None, fields |-> [k \in 1..(2) |-> ERF(k)]]

Lens == 0..MaxLen

Inputs(cat) ==
    CASE cat = "ast" -> {[k \in 1..(n) |-> F(k)] : n \in 0..(MaxLen + 1)}
      [] cat = "expr" -> UNION {ExprsOf(l, n, o) : l \in Loc, n \in Lens, o \in BOOLEAN}
      [] cat = "pat" -> UNION {PatsOf(l, n, o) : l \in Loc, n \in Lens, o \in BOOLEAN}
      [] cat = "test" -> UNION {TestsOf(l, n, o) : l \in Loc, n \in Lens, o \in BOOLEAN}
      [] cat = "clause" -> {C(i) : i \in 1..MaxLen}
      [] cat = "body" -> {B(n) : n \in Lens}
      [] cat = "guard" -> {G(n) : n \in Lens}
      [] cat = "form" -> UNION {FormsOf(l, n) : l \in Loc, n \in Lens}
      [] cat = "qualifier" -> {Q(i) : i \in 1..4}
      [] cat = "binary_elem" -> {BE(i) : i \in 1..(MaxLen + 1)}
      [] cat = "pat_binary_elem" -> {PBE(i) : i \in 1..(MaxLen + 1)}
      [] cat = "record_field" -> {RF(i) : i \in 1..(MaxLen + 1)}
      [] cat = "test_record_field" -> {TRF(i) : i \in 1..(MaxLen + 1)}

-----------------------------------------------------------------------------
(* The passes the callers construct *)

Overs ==
    {{}, Categories, {"expr"}, {"pat"}, {"test"},
     {"clause", "body", "guard", "qualifier"},
     {"ast", "form", "binary_elem", "pat_binary_elem", "record_field", "test_record_field"}}

Targets == 0..MaxLoc

Passes ==
    {[over |-> {}, mode |-> "log", target |-> 0, log |-> <<>>, depth |-> 0, depths |-> <<>>]}
    \cup
    {[over |-> o, mode |-> m, target |-> g, log |-> <<>>, depth |-> 0, depths |-> <<>>] :
        o \in Overs \ {{}}, m \in {"log", "shift"}, g \in {0}}
    \cup
    {[over |-> o, mode |-> m, target |-> g, log |-> <<>>, depth |-> 0, depths |-> <<>>] :
        o \in Overs \ {{}}, m \in {"fail", "replace"}, g \in Targets}

-----------------------------------------------------------------------------
(* The state machine: a caller constructs a pass and invokes one entry point *)

\* The cache of a database just opened: every module empty, nothing computed,
\* no caller.
CacheInit ==
    /\ content = [k \in Keys |-> <<>>]
    /\ rev = [k \in Keys |-> 0]
    /\ memo = [k \in Keys |-> None]
    /\ running = [k \in Keys |-> FALSE]
    /\ th = [t \in Threads |-> [pc |-> "idle", key |-> None, rev |-> 0, ret |-> None,
                                 waited |-> FALSE, prev |-> None]]
    /\ execs = <<>>

Init ==
    /\ tr \in Passes
    /\ entry = "none"
    /\ input = None
    /\ result = None
    /\ CacheInit
    /\ uf = Parked
    /\ gl = Parked
    /\ MoreParked

\* The caller's state once the entry point cat, given node, returned r.
Returned(cat, node, r) ==
    /\ entry' = cat
    /\ input' = node
    /\ result' = [ok |-> r.ok, val |-> r.val]
    /\ tr' = r.tr
    /\ UNCHANGED <<cache_vars, uf, gl, more_vars>>

CallTransformAst ==
    /\ entry = "none"
    /\ \E node \in Inputs("ast") : Returned("ast", node, transform_ast(tr, node))

CallTransformExpr ==
    /\ entry = "none"
    /\ \E node \in Inputs("expr") : Returned("expr", node, transform_expr(tr, node))

CallTransformPat ==
    /\ entry = "none"
    /\ \E node \in Inputs("pat") : Returned("pat", node, transform_pat(tr, node))

CallTransformTest ==
    /\ entry = "none"
    /\ \E node \in Inputs("test") : Returned("test", node, transform_test(tr, node))

CallTransformClause ==
    /\ entry = "none"
    /\ \E node \in Inputs("clause") : Returned("clause", node, transform_clause(tr, node))

CallTransformBody ==
    /\ entry = "none"
    /\ \E node \in Inputs("body") : Returned("body", node, transform_body(tr, node))

CallTransformGuard ==
    /\ entry = "none"
    /\ \E node \in Inputs("guard") : Returned("guard", node, transform_guard(tr, node))

CallTransformForm ==
    /\ entry = "none"
    /\ \E node \in Inputs("form") : Returned("form", node, transform_form(tr, node))

CallTransformQualifier ==
    /\ entry = "none"
    /\ \E node \in Inputs("qualifier") : Returned("qualifier", node, transform_qualifier(tr, node))

CallTransformBinaryElem ==
    /\ entry = "none"
    /\ \E node \in Inputs("binary_elem") : Returned("binary_elem", node, transform_binary_elem(tr, node))

CallTransformPatBinaryElem ==
    /\ entry = "none"
    /\ \E node \in Inputs("pat_binary_elem") : Returned("pat_binary_elem", node, transform_pat_binary_elem(tr, node))

CallTransformRecordField ==
    /\ entry = "none"
    /\ \E node \in Inputs("record_field") : Returned("record_field", node, transform_record_field(tr, node))

CallTransformTestRecordField ==
    /\ entry = "none"
    /\ \E node \in Inputs("test_record_field") : Returned("test_record_field", node, transform_test_record_field(tr, node))

\* The caller drops the transformer and constructs another.
NewTransformer ==
    /\ entry # "none"
    /\ tr' \in Passes
    /\ entry' = "none"
    /\ input' = None
    /\ result' = None
    /\ UNCHANGED <<cache_vars, uf, gl, more_vars>>

Next ==
    \/ CallTransformAst
    \/ CallTransformExpr
    \/ CallTransformPat
    \/ CallTransformTest
    \/ CallTransformClause
    \/ CallTransformBody
    \/ CallTransformGuard
    \/ CallTransformForm
    \/ CallTransformQualifier
    \/ CallTransformBinaryElem
    \/ CallTransformPatBinaryElem
    \/ CallTransformRecordField
    \/ CallTransformTestRecordField
    \/ NewTransformer

Spec == Init /\ [][Next]_vars

\* The transformer as the caller constructed it, before the call.
Before == [tr EXCEPT !.log = <<>>, !.depths = <<>>]
Called == entry # "none"

TypeOK ==
    /\ entry \in Categories \cup {"none"}
    /\ tr.over \in Overs /\ tr.mode \in Modes /\ tr.target \in Targets
    /\ Called => result.ok \in BOOLEAN

-----------------------------------------------------------------------------
(* The shape of the nodes: for each variant, its child fields in field      *)
(* order, with the category of the children each holds.  Every other field  *)
(* of a node is non-recursive payload.                                      *)

S1(f, cat) == [field |-> f, kind |-> "one", cat |-> cat, vcat |-> cat, sub |-> ""]
SN(f, cat) == [field |-> f, kind |-> "many", cat |-> cat, vcat |-> cat, sub |-> ""]
SO(f, cat) == [field |-> f, kind |-> "opt", cat |-> cat, vcat |-> cat, sub |-> ""]
SKV(f, kcat, vcat) == [field |-> f, kind |-> "kvs", cat |-> kcat, vcat |-> vcat, sub |-> ""]
SF(f, sub, cat) == [field |-> f, kind |-> "fields", cat |-> cat, vcat |-> cat, sub |-> sub]
SOF(f, sub, cat) == [field |-> f, kind |-> "optfields", cat |-> cat, vcat |-> cat, sub |-> sub]

ExprShape(tag) ==
    CASE tag \in ExprLeafTags -> <<>>
      [] tag \in {"Block", "Maybe"} -> <<S1("body", "body")>>
      [] tag = "Match" -> <<S1("pat", "pat"), S1("expr", "expr")>>
      [] tag = "Tuple" -> <<SN("elems", "expr")>>
      [] tag = "Cons" -> <<S1("h", "expr"), S1("t", "expr")>>
      [] tag = "Case" -> <<S1("expr", "expr"), SN("clauses", "clause")>>
      [] tag \in {"If", "Lambda", "Receive"} -> <<SN("clauses", "clause")>>
      [] tag \in {"LocalCall", "RemoteCall"} -> <<SN("args", "expr")>>
      [] tag = "DynCall" -> <<S1("f", "expr"), SN("args", "expr")>>
      [] tag = "DynRemoteFun" -> <<S1("module", "expr"), S1("name", "expr")>>
      [] tag = "DynRemoteFunArity" ->
            <<S1("module", "expr"), S1("name", "expr"), S1("arity", "expr")>>
      [] tag = "UnOp" -> <<S1("arg", "expr")>>
      [] tag = "BinOp" -> <<S1("arg_1", "expr"), S1("arg_2", "expr")>>
      [] tag \in {"LComprehension", "BComprehension"} ->
            <<S1("template", "expr"), SN("qualifiers", "qualifier")>>
      [] tag = "MComprehension" ->
            <<S1("k_template", "expr"), S1("v_template", "expr"),
              SN("qualifiers", "qualifier")>>
      [] tag = "Binary" -> <<SN("elems", "binary_elem")>>
      [] tag \in {"Catch", "RecordSelect"} -> <<S1("expr", "expr")>>
      [] tag = "TryCatchExpr" ->
            <<S1("try_body", "body"), SN("catch_clauses", "clause"),
              SO("after_body", "body")>>
      [] tag = "TryOfCatchExpr" ->
            <<S1("try_body", "body"), SN("try_clauses", "clause"),
              SN("catch_clauses", "clause"), SO("after_body", "body")>>
      [] tag = "ReceiveWithTimeout" ->
            <<SN("clauses", "clause"), S1("timeout", "expr"), S1("timeout_body", "body")>>
      [] tag = "RecordCreate" -> <<SN("fields", "record_field")>>
      [] tag = "RecordUpdate" -> <<S1("expr", "expr"), SF("fields", "value", "expr")>>
      [] tag = "MapCreate" -> <<SKV("kvs", "expr", "expr")>>
      [] tag = "MapUpdate" -> <<S1("map", "expr"), SKV("kvs", "expr", "expr")>>
      [] tag = "MaybeElse" -> <<S1("body", "body"), SN("else_clauses", "clause")>>
      [] tag = "MaybeMatch" -> <<S1("pat", "pat"), S1("arg", "expr")>>

PatShape(tag) ==
    CASE tag \in PatLeafTags -> <<>>
      [] tag = "PatMatch" -> <<S1("pat", "pat"), S1("arg", "pat")>>
      [] tag = "PatTuple" -> <<SN("elems", "pat")>>
      [] tag = "PatCons" -> <<S1("h", "pat"), S1("t", "pat")>>
      [] tag = "PatRecord" -> <<SF("fields", "pat", "pat"), SO("gen", "pat")>>
      [] tag = "PatUnOp" -> <<S1("arg", "pat")>>
      [] tag = "PatBinOp" -> <<S1("arg_1", "pat"), S1("arg_2", "pat")>>
      [] tag = "PatBinary" -> <<SN("elems", "pat_binary_elem")>>
      [] tag = "PatMap" -> <<SKV("kvs", "test", "pat")>>

TestShape(tag) ==
    CASE tag \in TestLeafTags -> <<>>
      [] tag = "TestTuple" -> <<SN("elems", "test")>>
      [] tag = "TestCons" -> <<S1("h", "test"), S1("t", "test")>>
      [] tag = "TestCall" -> <<SN("args", "test")>>
      [] tag = "TestRecordCreate" -> <<SN("fields", "test_record_field")>>
      [] tag = "TestRecordSelect" -> <<S1("rec", "test")>>
      [] tag = "TestMapCreate" -> <<SKV("kvs", "test", "test")>>
      [] tag = "TestMapUpdate" -> <<S1("map", "test"), SKV("kvs", "test", "test")>>
      [] tag = "TestUnOp" -> <<S1("arg", "test")>>
      [] tag = "TestBinOp" -> <<S1("arg_1", "test"), S1("arg_2", "test")>>

FormShape(tag) ==
    CASE tag \in FormLeafTags -> <<>>
      [] tag = "FunDecl" -> <<SN("clauses", "clause")>>
      [] tag = "ExternalRecDecl" -> <<SOF("fields", "default_value", "expr")>>

QualifierShape(tag) ==
    CASE tag \in {"LGenerate", "BGenerate"} -> <<S1("pat", "pat"), S1("expr", "expr")>>
      [] tag = "MGenerate" -> <<S1("k_pat", "pat"), S1("v_pat", "pat"), S1("expr", "expr")>>
      [] tag = "Filter" -> <<S1("expr", "expr")>>

\* The AST is the Vec of its forms: its one child list is the node itself.
Shape(cat, node) ==
    CASE cat = "ast" -> <<SN("", "form")>>
      [] cat = "expr" -> ExprShape(node.tag)
      [] cat = "pat" -> PatShape(node.tag)
      [] cat = "test" -> TestShape(node.tag)
      [] cat = "form" -> FormShape(node.tag)
      [] cat = "qualifier" -> QualifierShape(node.tag)
      [] cat = "clause" -> <<SN("pats", "pat"), SN("guards", "guard"), S1("body", "body")>>
      [] cat = "body" -> <<SN("exprs", "expr")>>
      [] cat = "guard" -> <<SN("tests", "test")>>
      [] cat = "binary_elem" -> <<S1("expr", "expr"), SO("size", "expr")>>
      [] cat = "pat_binary_elem" -> <<S1("pat", "pat"), SO("size", "expr")>>
      [] cat = "record_field" -> <<S1("value", "expr")>>
      [] cat = "test_record_field" -> <<S1("value", "test")>>

Tagged == {"expr", "pat", "test", "form", "qualifier", "record_field", "test_record_field"}

\* The value of a child field.
Field(cat, node, slot) == IF cat = "ast" THEN node ELSE node[slot.field]

RECURSIVE Flatten(_)
Flatten(ss) == IF ss = <<>> THEN <<>> ELSE Head(ss) \o Flatten(Tail(ss))

\* The children a child field holds, in order, each with its category.
SlotChildren(cat, node, slot) ==
    LET v == Field(cat, node, slot)
    IN  CASE slot.kind = "one" -> <<Visit(slot.cat, v)>>
          [] slot.kind = "many" -> [i \in 1..Len(v) |-> Visit(slot.cat, v[i])]
          [] slot.kind = "opt" -> IF v = None THEN <<>> ELSE <<Visit(slot.cat, v.v)>>
          [] slot.kind = "kvs" ->
                Flatten([i \in 1..Len(v) |->
                            <<Visit(slot.cat, v[i][1]), Visit(slot.vcat, v[i][2])>>])
          [] slot.kind = "fields" -> [i \in 1..Len(v) |-> Visit(slot.cat, v[i][slot.sub])]
          [] slot.kind = "optfields" ->
                Flatten([i \in 1..Len(v) |->
                            IF v[i][slot.sub] = None THEN <<>>
                            ELSE <<Visit(slot.cat, v[i][slot.sub].v)>>])

\* The children of a node, in field order.
Children(cat, node) ==
    LET sh == Shape(cat, node)
    IN  Flatten([i \in 1..Len(sh) |-> SlotChildren(cat, node, sh[i])])

-----------------------------------------------------------------------------
(* Properties *)

\* The top-level call ran the default walk on the input: the entry point is
\* not overridden, or its override did no more than record the node.
DefaultAtTop ==
    /\ Called
    /\ \/ entry \notin tr.over
       \/ tr.mode # "shift" /\ ~IsTarget(Before, entry, input)

Min(S) == CHOOSE x \in S : \A y \in S : x <= y

\* C1 (identity law): a transformer that overrides no entry point returns Ok
\* with a tree equal to the input, for an input of any category.
IdentityLaw ==
    (Called /\ tr.over = {}) => (result.ok /\ result.val = input)

IdentityWitness ==
    /\ Called /\ tr.over = {} /\ entry = "expr"
    /\ input.tag = "LComprehension" /\ Len(input.qualifiers) >= 2
    /\ result.ok /\ result.val.qualifiers = input.qualifiers

\* The invocations, by their position in the pass's record, on which the
\* pass's override returned Err.
FailingVisits ==
    {i \in 1..Len(tr.log) : ShouldFail(Before, tr.log[i].cat, tr.log[i].node)}

\* C2 (fail-fast result): the call returns Err exactly when some entry-point
\* invocation made during it returned Err, and then it returns the error of
\* the first such invocation in visit order.
FailFast ==
    Called =>
        /\ result.ok <=> FailingVisits = {}
        /\ ~result.ok => result.val = tr.log[Min(FailingVisits)]

FailFastWitness ==
    /\ Called /\ entry \notin tr.over /\ ~result.ok
    /\ Len(tr.log) >= 2
    /\ result.val = tr.log[Len(tr.log)]

-----------------------------------------------------------------------------
(* What the pass does to one node, and the nodes under a node *)

\* The transformer as the default walk of the input received it.
AtTop == IF entry \in tr.over THEN Seen(Before, entry, input) ELSE Before

\* The node this transformer returns for the node x of category cat.
ElemVal(cat, x) == Transform(cat, Before, x).val

\* The transformer after its entry points took the nodes of kids one after
\* the other, up to the first that returned Err.
RECURSIVE RunKids(_, _)
RunKidsNext(kids, r) == IF r.ok THEN RunKids(r.tr, Tail(kids)) ELSE r.tr
RunKids(t, kids) ==
    IF kids = <<>> THEN t
    ELSE RunKidsNext(kids, Transform(kids[1].cat, t, kids[1].node))

\* The heads and the terminal tail of a cons chain.
RECURSIVE ConsKids(_)
ConsKids(c) ==
    <<Visit("expr", c.h)>>
        \o (IF c.t.tag = "Cons" THEN ConsKids(c.t) ELSE <<Visit("expr", c.t)>>)

Kids(flat, cat, node) ==
    IF flat /\ cat = "expr" /\ node.tag = "Cons" THEN ConsKids(node)
    ELSE Children(cat, node)

\* The node and every node nested under it, parents first.  With flat, the
\* cells of an expression cons chain after the first are left out.
RECURSIVE Subnodes(_, _, _)
SubnodesOf(flat, kids) ==
    Flatten([i \in 1..Len(kids) |-> Subnodes(flat, kids[i].cat, kids[i].node)])
Subnodes(flat, cat, node) == <<Visit(cat, node)>> \o SubnodesOf(flat, Kids(flat, cat, node))

Count(s, x) == Cardinality({j \in 1..Len(s) : s[j] = x})
SameBag(s1, s2) ==
    /\ Len(s1) = Len(s2)
    /\ \A i \in 1..Len(s1) : Count(s1, s1[i]) = Count(s2, s1[i])

Overridden(s) == SelectSeq(s, LAMBDA x : x.cat \in tr.over)

ListKinds == {"many", "kvs", "fields", "optfields"}

\* The element a default walk returns for the element x of a child list.
ElemOut(slot, x) ==
    CASE slot.kind = "many" -> ElemVal(slot.cat, x)
      [] slot.kind = "kvs" -> <<ElemVal(slot.cat, x[1]), ElemVal(slot.vcat, x[2])>>
      [] slot.kind = "fields" -> [x EXCEPT ![slot.sub] = ElemVal(slot.cat, @)]
      [] slot.kind = "optfields" ->
            [x EXCEPT ![slot.sub] = IF @ = None THEN None ELSE Some(ElemVal(slot.cat, @.v))]

Slots == IF Called THEN Shape(entry, input) ELSE <<>>
SlotsOfKind(kinds) == {i \in 1..Len(Slots) : Slots[i].kind \in kinds}
In(i) == Field(entry, input, Slots[i])
Out(i) == Field(entry, result.val, Slots[i])

-----------------------------------------------------------------------------

\* C3 as stated: after a failed transformation the pass's state shows no
\* change made by the transformation of a sibling: it records only the
\* failing node and the nodes that enclose it.
NoSiblingSideEffects ==
    (Called /\ ~result.ok) =>
        \A i \in 1..Len(tr.log) :
            \E j \in 1..Len(Subnodes(FALSE, tr.log[i].cat, tr.log[i].node)) :
                Subnodes(FALSE, tr.log[i].cat, tr.log[i].node)[j] = result.val

\* The pass's record of the same call when no override fails.
FullLog == Transform(entry, [Before EXCEPT !.mode = "log"], input).tr.log

\* C3 (amended): when an override fails, the call fails and the pass's state
\* holds the changes of exactly the invocations up to the failing one, in
\* visit order: what earlier siblings changed stays, later siblings are never
\* transformed.
EarlierSideEffectsOnly ==
    (Called /\ ~result.ok) =>
        /\ Len(tr.log) <= Len(FullLog)
        /\ tr.log = SubSeq(FullLog, 1, Len(tr.log))
        /\ FailingVisits = {Len(tr.log)}

EarlierSideEffectsWitness ==
    /\ Called /\ ~result.ok /\ entry \notin tr.over
    /\ Len(tr.log) >= 2 /\ Len(FullLog) > Len(tr.log)
    /\ \E i \in 1..Len(Children(entry, input)) : Children(entry, input)[i] = tr.log[1]

\* C4 (order preservation): a successful default walk returns, for each child
\* list of the node, a list of the same length whose i-th element is the
\* transformation of the i-th input element.
OrderPreserved ==
    (DefaultAtTop /\ result.ok) =>
        \A i \in SlotsOfKind(ListKinds) :
            /\ Len(Out(i)) = Len(In(i))
            /\ \A k \in 1..Len(In(i)) : Out(i)[k] = ElemOut(Slots[i], In(i)[k])

OrderPreservedWitness ==
    /\ DefaultAtTop /\ result.ok /\ entry = "body"
    /\ tr.mode = "shift" /\ "expr" \in tr.over
    /\ Len(input.exprs) >= 2
    /\ result.val.exprs[1] # input.exprs[1]
    /\ result.val.exprs[1] # result.val.exprs[2]

\* C5 (variant preservation): a successful default walk of a node of variant
\* V returns a node of variant V with the same fields and the same number of
\* children, whatever the child entry points returned.
VariantPreserved ==
    (DefaultAtTop /\ result.ok /\ entry \in Tagged) =>
        /\ result.val.tag = input.tag
        /\ DOMAIN result.val = DOMAIN input
        /\ Len(Children(entry, result.val)) = Len(Children(entry, input))

VariantPreservedWitness ==
    /\ DefaultAtTop /\ result.ok /\ entry = "pat"
    /\ tr.mode = "replace" /\ "pat" \in tr.over
    /\ input.tag = "PatCons" /\ result.val.tag = "PatCons"
    /\ result.val.h = Replacement("pat") /\ input.h.tag = "PatTuple"

\* C6 as stated: every node nested under the transformed node goes through
\* the entry point of its category exactly once, so the pass's overrides see
\* every nested node of their categories.
EveryNodeDispatched ==
    (Called /\ result.ok) => SameBag(tr.log, Overridden(Subnodes(FALSE, entry, input)))

\* C6 (amended): every node nested under the transformed node goes through the
\* entry point of its category exactly once, except the cells of an expression
\* cons chain after the first: of a chain only the heads and the terminal
\* tail go through transform_expr.
EveryNodeDispatchedButConsCells ==
    (Called /\ result.ok) => SameBag(tr.log, Overridden(Subnodes(TRUE, entry, input)))

DispatchWitness ==
    /\ Called /\ result.ok /\ entry = "expr" /\ "expr" \in tr.over
    /\ input.tag = "Cons" /\ input.t.tag = "Cons"
    /\ Len(tr.log) >= 4

\* The nodes that have an optional child.
HasOptional == Called /\ SlotsOfKind({"opt", "optfields"}) # {}

\* C7 (optional slots): a successful default walk returns each optional child
\* present exactly when the input's was present, and the entry points are
\* invoked for the children that are present and for nothing else: an
\* absent child causes no invocation.
OptionalSlots ==
    (DefaultAtTop /\ HasOptional) =>
        /\ tr.log = RunKids(AtTop, Children(entry, input)).log
        /\ result.ok =>
              /\ \A i \in SlotsOfKind({"opt"}) : Out(i).tag = In(i).tag
              /\ \A i \in SlotsOfKind({"optfields"}) :
                    /\ Len(Out(i)) = Len(In(i))
                    /\ \A k \in 1..Len(In(i)) :
                          Out(i)[k][Slots[i].sub].tag = In(i)[k][Slots[i].sub].tag

OptionalSlotsWitness ==
    /\ DefaultAtTop /\ result.ok /\ entry = "binary_elem" /\ "expr" \in tr.over
    /\ input.size = None /\ result.val.size = None
    /\ tr.log = <<Visit("expr", input.expr)>>

MapTags == {"MapCreate", "MapUpdate", "PatMap", "TestMapCreate", "TestMapUpdate"}

IsMap == Called /\ entry \in {"expr", "pat", "test"} /\ input.tag \in MapTags

\* C8 (map pairs): the default walk of a map node transforms the key of pair
\* i, then the value of pair i, then pair i + 1, and stops at the first Err,
\* so a value is never transformed after its key failed; on success output
\* pair i is (transformed key i, transformed value i).
MapPairs ==
    (DefaultAtTop /\ IsMap) =>
        /\ tr.log = RunKids(AtTop, Children(entry, input)).log
        /\ result.ok =>
              /\ Len(result.val.kvs) = Len(input.kvs)
              /\ \A i \in 1..Len(input.kvs) :
                    /\ result.val.kvs[i][1] = ElemVal(Shape(entry, input)[Len(Slots)].cat,
                                                      input.kvs[i][1])
                    /\ result.val.kvs[i][2] = ElemVal(Shape(entry, input)[Len(Slots)].vcat,
                                                      input.kvs[i][2])

MapPairsWitness ==
    /\ DefaultAtTop /\ IsMap /\ ~result.ok /\ input.tag = "PatMap"
    /\ Len(input.kvs) >= 2
    /\ result.val = Visit("test", input.kvs[2][1])
    /\ tr.log[Len(tr.log) - 1] = Visit("pat", input.kvs[1][2])

IsRecordUpdate == Called /\ entry = "expr" /\ input.tag = "RecordUpdate"

\* C9 (record update): the default walk of a RecordUpdate transforms the record
\* expression and the value of each field, and returns each field under the
\* name and at the position it had in the input.
RecordUpdateNames ==
    (DefaultAtTop /\ IsRecordUpdate /\ result.ok) =>
        /\ result.val.expr = ElemVal("expr", input.expr)
        /\ Len(result.val.fields) = Len(input.fields)
        /\ \A i \in 1..Len(input.fields) :
              /\ DOMAIN result.val.fields[i] = {"name", "value"}
              /\ result.val.fields[i].name = input.fields[i].name
              /\ result.val.fields[i].value = ElemVal("expr", input.fields[i].value)

RecordUpdateWitness ==
    /\ DefaultAtTop /\ IsRecordUpdate /\ result.ok
    /\ tr.mode = "replace" /\ "expr" \in tr.over
    /\ Len(input.fields) >= 2
    /\ result.val.fields[2].value = Replacement("expr")
    /\ input.fields[2].value # Replacement("expr")
    /\ input.fields[1].name # input.fields[2].name

\* The fields of the input that hold children.
ChildFields == {Slots[i].field : i \in 1..Len(Slots)}

\* C10 (payload frame): a node a default walk rebuilt carries the input
\* node's non-recursive payload (location, operator, identifiers and names,
\* specifier, literal leaves), whatever the child entry points returned; so do
\* the named fields inside it.
PayloadFrame ==
    (DefaultAtTop /\ result.ok /\ entry # "ast") =>
        /\ \A f \in DOMAIN input \ ChildFields : result.val[f] = input[f]
        /\ \A i \in SlotsOfKind({"fields", "optfields"}) :
              \A k \in 1..Len(In(i)) :
                  \A f \in DOMAIN In(i)[k] \ {Slots[i].sub} : Out(i)[k][f] = In(i)[k][f]

PayloadFrameWitness ==
    /\ DefaultAtTop /\ result.ok /\ entry = "pat_binary_elem"
    /\ tr.mode = "shift" /\ "pat" \in tr.over
    /\ result.val.pat # input.pat
    /\ input.specifier = "b" /\ result.val.specifier = "b"
    /\ result.val.location = input.location

-----------------------------------------------------------------------------
(* The incremental diagnostic cache: compute_eqwalizer_stats as a memoized  *)
(* query of the database.  The query group declares the query; the table    *)
(* that memoizes it is modelled from the specification's section 4.4 and 5. *)

\* The escape hatches a module may hold, by location, in traversal order.
MaxFindings == 2
FindingLocs == {1, 2}
Contents == UNION {[1..n -> FindingLocs] : n \in 0..MaxFindings}

\* Arc::new(v): a handle to a fresh allocation, the id-th of the run.
Arc_new(id, v) == [id |-> id, data |-> v]

EqwalizerDiagnostic(l) == [location |-> l, code |-> "escape_hatch"]

\* lookups of the module's AST the pass makes through the database
ast_of(db, project_id, module) == db[<<project_id, module>>]

\* The observation-only pass: one diagnostic appended to the caller's
\* sequence for each escape hatch of the module, in traversal order.
escape_hatches(db, diagnostics, project_id, module) ==
    diagnostics
        \o [i \in 1..Len(ast_of(db, project_id, module)) |->
                EqwalizerDiagnostic(ast_of(db, project_id, module)[i])]

\* The sequence handed back absent when the pass found nothing.
compute_eqwalizer_stats_or_none(db, id, project_id, module) ==
    IF escape_hatches(db, <<>>, project_id, module) = <<>> THEN None
    ELSE Arc_new(id, escape_hatches(db, <<>>, project_id, module))

\* The findings pushed in front of the sequence instead of appended.
RECURSIVE reversed(_)
reversed(v) == IF v = <<>> THEN <<>> ELSE Append(reversed(Tail(v)), Head(v))

compute_eqwalizer_stats_reversed(db, id, project_id, module) ==
    Arc_new(id, reversed(escape_hatches(db, <<>>, project_id, module)))

\* let mut diagnostics = vec![]; escape_hatches(db, &mut diagnostics, ..);
\* Arc::new(diagnostics)
compute_eqwalizer_stats(db, id, project_id, module) ==
    Arc_new(id, escape_hatches(db, <<>>, project_id, module))

\* A stored value is never taken for this key.
never_cached(table, k) == FALSE

\* Whether the table holds a value for the key.
is_cached(table, k) == table[k] # None

\* No caller is ever taken to be computing this key.
never_running(r, k) == FALSE

\* Whether a caller is computing the key's value (the thundering-herd guard).
is_running(r, k) == r[k]

\* Every entry taken to depend on every module.
depends_on_any(k, changed) == TRUE

\* Whether the entry of key k depends on the module (of the project) changed.
depends_on(k, changed) == k = changed

\* A change that leaves the table as it is.
invalidate_nothing(table, changed) == table

\* What a change to a module does to the table: exactly the entries that
\* depend on the module are dropped.
invalidate(table, changed) ==
    [k \in Keys |-> IF depends_on(k, changed) THEN None ELSE table[k]]

\* A copy of the stored sequence behind a handle of its own.
awaited_copy(table, k) == Arc_new(0, table[k].v.data)

\* What a caller that waited for the computing caller gets: the stored handle.
awaited(table, k) == table[k].v

Idle(t) == th[t].pc = "idle"

\* get_diagnostics(p, m), the value is stored: the caller gets the stored handle.
Hit(t, k) ==
    /\ Idle(t)
    /\ is_cached(memo, k)
    /\ th' = [th EXCEPT ![t] = [@ EXCEPT !.pc = "done", !.key = k, !.rev = rev[k],
                                         !.ret = memo[k].v, !.waited = FALSE]]
    /\ UNCHANGED <<content, rev, memo, running, execs, walk_vars, uf, gl, more_vars>>

\* get_diagnostics(p, m), no value and no caller computing it: the caller
\* takes the computation.
Claim(t, k) ==
    /\ Idle(t)
    /\ ~is_cached(memo, k)
    /\ ~is_running(running, k)
    /\ running' = [running EXCEPT ![k] = TRUE]
    /\ th' = [th EXCEPT ![t] = [@ EXCEPT !.pc = "computing", !.key = k, !.rev = rev[k],
                                         !.ret = None, !.waited = FALSE]]
    /\ UNCHANGED <<content, rev, memo, execs, walk_vars, uf, gl, more_vars>>

\* get_diagnostics(p, m), no value and a caller computing it: the caller waits.
Block(t, k) ==
    /\ Idle(t)
    /\ ~is_cached(memo, k)
    /\ is_running(running, k)
    /\ th' = [th EXCEPT ![t] = [@ EXCEPT !.pc = "waiting", !.key = k, !.rev = rev[k],
                                         !.ret = None, !.waited = TRUE]]
    /\ UNCHANGED <<content, rev, memo, running, execs, walk_vars, uf, gl, more_vars>>

\* The value computed by the caller that took the computation: stored, and
\* returned to it.
Stored(t, k, arc) ==
    /\ memo' = [memo EXCEPT ![k] = Some(arc)]
    /\ running' = [running EXCEPT ![k] = FALSE]
    /\ execs' = Append(execs, [key |-> k, rev |-> rev[k], from |-> content[k], arc |-> arc])
    /\ th' = [th EXCEPT ![t] = [@ EXCEPT !.pc = "done", !.ret = arc]]
    /\ UNCHANGED <<content, rev, walk_vars, uf, gl, more_vars>>

Finish(t) ==
    /\ th[t].pc = "computing"
    /\ Stored(t, th[t].key,
              compute_eqwalizer_stats(content, Len(execs) + 1, th[t].key[1], th[t].key[2]))

\* The computing caller is done: the waiting caller gets the value.
Wake(t) ==
    /\ th[t].pc = "waiting"
    /\ ~running[th[t].key]
    /\ th' = [th EXCEPT ![t] = [@ EXCEPT !.pc = "done", !.ret = awaited(memo, th[t].key)]]
    /\ UNCHANGED <<content, rev, memo, running, execs, walk_vars, uf, gl, more_vars>>

\* The caller is done with the handle; it remembers what the call was.
Drop(t) ==
    /\ th[t].pc = "done"
    /\ th' = [th EXCEPT ![t] = [@ EXCEPT !.pc = "idle", !.key = None, !.rev = 0, !.ret = None,
                                         !.prev = [key |-> th[t].key, rev |-> th[t].rev,
                                                   ret |-> th[t].ret]]]
    /\ UNCHANGED <<content, rev, memo, running, execs, walk_vars, uf, gl, more_vars>>

Changes == rev[<<"p", "m1">>] + rev[<<"p", "m2">>]

\* The content of a module changes.  A write takes the database exclusively:
\* no lookup is in flight.
Change(k, c) ==
    /\ \A t \in Threads : th[t].pc \in {"idle", "done"}
    /\ Changes < MaxChanges
    /\ c # content[k]
    /\ content' = [content EXCEPT ![k] = c]
    /\ rev' = [rev EXCEPT ![k] = @ + 1]
    /\ memo' = invalidate(memo, k)
    /\ UNCHANGED <<running, th, execs, walk_vars, uf, gl, more_vars>>

CacheHit == \E t \in Threads, k \in Keys : Hit(t, k)
CacheClaim == \E t \in Threads, k \in Keys : Claim(t, k)
CacheBlock == \E t \in Threads, k \in Keys : Block(t, k)
CacheFinish == \E t \in Threads : Finish(t)
CacheWake == \E t \in Threads : Wake(t)
CacheDrop == \E t \in Threads : Drop(t)
CacheChange == \E k \in Keys, c \in Contents : Change(k, c)

WalkParked ==
    /\ tr = [over |-> {}, mode |-> "log", target |-> 0, log |-> <<>>]
    /\ entry = "none"
    /\ input = None
    /\ result = None

CacheNext ==
    \/ CacheHit
    \/ CacheClaim
    \/ CacheBlock
    \/ CacheFinish
    \/ CacheWake
    \/ CacheDrop
    \/ CacheChange

CacheStart == WalkParked /\ CacheInit /\ uf = Parked /\ gl = Parked /\ MoreParked

CacheSpec == CacheStart /\ [][CacheNext]_vars

-----------------------------------------------------------------------------
(* Properties of the cache *)

Done(t) == th[t].pc = "done"

\* The executions of compute_eqwalizer_stats for key k while the module had
\* changed r times.
Executions(k, r) == {i \in 1..Len(execs) : execs[i].key = k /\ execs[i].rev = r}

\* The caller's call and its previous call were for the same key with no
\* change to the module between them.
Repeated(t) ==
    /\ Done(t) /\ th[t].prev # None
    /\ th[t].prev.key = th[t].key /\ th[t].prev.rev = th[t].rev

\* C11 (memoization): a call that follows a call for the same key with no
\* change to the module in between returns the same shared sequence, and the
\* computation ran once for the two of them.
Memoized ==
    \A t \in Threads :
        Repeated(t) =>
            /\ th[t].ret = th[t].prev.ret
            /\ Cardinality(Executions(th[t].key, th[t].rev)) = 1

MemoizedWitness ==
    \E t \in Threads :
        /\ Repeated(t) /\ ~th[t].waited
        /\ th[t].ret = th[t].prev.ret /\ th[t].ret.data # <<>>
        /\ execs[1].arc = th[t].ret

\* C12 (no stale result): what a lookup returns was computed at the state of
\* the module at which the lookup started; while the module has not changed
\* since, that is the module's current content.
NoStaleResult ==
    \A t \in Threads :
        Done(t) =>
            \E i \in Executions(th[t].key, th[t].rev) :
                /\ execs[i].arc = th[t].ret
                /\ th[t].rev = rev[th[t].key] => execs[i].from = content[th[t].key]

NoStaleResultWitness ==
    \E t \in Threads :
        /\ Done(t) /\ th[t].prev # None /\ th[t].prev.key = th[t].key
        /\ th[t].prev.rev < th[t].rev
        /\ th[t].ret.data # th[t].prev.ret.data
        /\ th[t].rev = rev[th[t].key]

\* C13 (single computation): for each key and each state of its module the
\* pass is executed at most once, however many callers look the key up at
\* once, and exactly once when a caller got a value.
SingleComputation ==
    /\ \A i, j \in 1..Len(execs) :
          (execs[i].key = execs[j].key /\ execs[i].rev = execs[j].rev) => i = j
    /\ \A t \in Threads :
          Done(t) => Cardinality(Executions(th[t].key, th[t].rev)) = 1

SingleComputationWitness ==
    \E t1, t2 \in Threads :
        /\ t1 # t2 /\ Done(t1) /\ Done(t2)
        /\ th[t1].key = th[t2].key /\ th[t1].rev = th[t2].rev
        /\ th[t2].waited /\ ~th[t1].waited /\ th[t1].prev = None /\ th[t2].prev = None
        /\ Len(execs) = 1

SameObserved ==
    \A t1, t2 \in Threads :
        (Done(t1) /\ Done(t2) /\ th[t1].key = th[t2].key /\ th[t1].rev = th[t2].rev)
            => th[t1].ret = th[t2].ret

StoredOnce ==
    \A k \in Keys :
        (memo[k] # None /\ memo'[k] # None /\ rev'[k] = rev[k]) => memo'[k] = memo[k]

\* C14 (single value per key): callers that look the same key up at the same
\* state of the module observe the same shared sequence, and the value
\* stored for a key is not replaced by another while the module is unchanged.
SingleValue == [](SameObserved) /\ [][StoredOnce]_vars

SingleValueWitness ==
    \E t1, t2 \in Threads :
        /\ t1 # t2 /\ Done(t1) /\ Done(t2)
        /\ th[t1].key = th[t2].key /\ th[t1].rev = th[t2].rev
        /\ th[t2].waited /\ th[t1].ret = th[t2].ret /\ th[t1].ret.data # <<>>
        /\ memo[th[t1].key] = Some(th[t1].ret)

\* C15 (precise invalidation): a step drops a stored entry exactly when the
\* module the entry depends on changed in that step; the entries of the other
\* keys stay as they are.
PreciseInvalidation ==
    [][\A k \in Keys :
          /\ (memo[k] # None /\ memo'[k] = None) <=> (memo[k] # None /\ rev'[k] # rev[k])
          /\ (memo[k] # None /\ rev'[k] = rev[k]) => memo'[k] = memo[k]]_vars

PreciseInvalidationWitness ==
    \E k1, k2 \in Keys, t \in Threads :
        /\ k1 # k2 /\ rev[k1] = 1 /\ rev[k2] = 0
        /\ memo[k1] = None /\ Executions(k1, 0) # {}
        /\ memo[k2] # None
        /\ Done(t) /\ th[t].key = k2 /\ th[t].prev # None /\ th[t].prev.key = k2
        /\ th[t].ret = th[t].prev.ret /\ Cardinality(Executions(k2, 0)) = 1

IsVec(v) == DOMAIN v = 1..Len(v)

\* C16 (totality): every execution returns a sequence behind a handle, the
\* empty sequence when the module holds no finding, and every caller gets a
\* handle, never an absent value.
Total ==
    /\ \A i \in 1..Len(execs) :
          /\ execs[i].arc # None
          /\ IsVec(execs[i].arc.data)
          /\ execs[i].from = <<>> => execs[i].arc.data = <<>>
    /\ \A t \in Threads : Done(t) => th[t].ret # None /\ IsVec(th[t].ret.data)

TotalWitness ==
    \E t \in Threads :
        /\ Done(t) /\ content[th[t].key] = <<>> /\ th[t].ret # None /\ th[t].ret.data = <<>>
        /\ memo[th[t].key] = Some(th[t].ret) /\ th[t].ret.id = Len(execs)

\* The passes compute_eqwalizer_stats runs, in the order it runs them.
RegisteredPasses == <<"escape_hatches">>

\* What one pass appends for a module of content c, in the order it finds it.
PassFindings(pass, c) == [j \in 1..Len(c) |-> EqwalizerDiagnostic(c[j])]

RECURSIVE Concatenated(_, _)
Concatenated(passes, c) ==
    IF passes = <<>> THEN <<>>
    ELSE PassFindings(Head(passes), c) \o Concatenated(Tail(passes), c)

\* C17 (pass output order): what an execution returns is the concatenation,
\* in registration order, of what each pass appended, in the order the pass
\* appended it: nothing added, dropped, reordered or merged.
PassOutputOrder ==
    \A i \in 1..Len(execs) :
        execs[i].arc.data = Concatenated(RegisteredPasses, execs[i].from)

PassOutputOrderWitness ==
    \E i \in 1..Len(execs) :
        /\ execs[i].from = <<2, 1>>
        /\ execs[i].arc.data = <<EqwalizerDiagnostic(2), EqwalizerDiagnostic(1)>>

-----------------------------------------------------------------------------
(* The diagnostic undefined_function *)

\* The functions of one definition map, and the calls of all of them together.
MaxFunctions == 2
MaxCalls == 2

\* The checked file, and a file it includes.
Files == {"main", "header"}

\* A call as find_call_in_function hands it to the callbacks: its target
\* (Remote or Local), what target.resolve_call and target.label return for
\* it, and the range reported for it.  A target with no label is one whose
\* module or function is not a literal atom; it resolves to nothing.
CallKinds ==
    {[kind |-> "Remote", def |-> Some("def"), label |-> Some("dependency:exists/0"),
      in_macro |-> FALSE],
     [kind |-> "Remote", def |-> None, label |-> Some("dependency:not_exists/0"),
      in_macro |-> FALSE],
     [kind |-> "Remote", def |-> None, label |-> Some("dependency:not_exists/0"),
      in_macro |-> TRUE],
     [kind |-> "Remote", def |-> None, label |-> None, in_macro |-> FALSE],
     [kind |-> "Local", def |-> Some("def"), label |-> Some("exists/0"), in_macro |-> FALSE],
     [kind |-> "Local", def |-> None, label |-> Some("not_exists/0"), in_macro |-> FALSE]}

\* The range reported for the j-th call of the i-th function: the call's own,
\* or that of the macro invocation the call expands from.
RangeAt(c, i, j) == IF c.in_macro THEN <<i, 0>> ELSE <<i, j>>

CallAt(c, i, j) ==
    [kind |-> c.kind, def |-> c.def, label |-> c.label, range |-> RangeAt(c, i, j)]

\* The functions that hold m calls.
FunctionDefKinds(m) ==
    {[file |-> [file_id |-> f], calls |-> cs] : f \in Files, cs \in [1..m -> CallKinds]}

\* The sequences of n functions that hold at most budget calls together.
RECURSIVE FunctionLists(_, _)
FunctionLists(n, budget) ==
    IF n = 0 THEN {<<>>}
    ELSE UNION {{<<d>> \o rest : d \in FunctionDefKinds(m),
                                 rest \in FunctionLists(n - 1, budget - m)} :
                   m \in 0..budget}

Placed(fs) ==
    [i \in DOMAIN fs |->
        [file |-> fs[i].file,
         calls |-> [j \in DOMAIN fs[i].calls |-> CallAt(fs[i].calls[j], i, j)]]]

\* sema.def_map(file_id).get_functions(), in the order .iter() yields them
DefMaps == {Placed(fs) : fs \in UNION {FunctionLists(n, MaxCalls) : n \in 1..MaxFunctions}}

\* A diagnostic some other check left in the caller's Vec.
OtherDiagnostic ==
    [code |-> "Other", message |-> <<"other">>, range |-> <<0, 0>>, severity |-> "Error",
     experimental |-> FALSE, ignore_fix |-> None]

\* Diagnostic::new(UndefinedFunction, message, range).with_severity(Warning)
\* .with_ignore_fix(sema, file_id).experimental()
make_diagnostic(file_id, range, function_name) ==
    [code |-> "UndefinedFunction",
     message |-> <<"Function '", function_name, "' is undefined.">>,
     range |-> range, severity |-> "Warning", experimental |-> TRUE,
     ignore_fix |-> Some(file_id)]

\* .map(|label| (label.to_string(), "".to_string()))
label_extra(label) == IF label = None THEN None ELSE Some(<<label.v, "">>)

\* Remote calls reported whether or not they resolve.
check_call_unresolved_or_not(ctx) ==
    IF ctx.kind = "Remote" THEN label_extra(ctx.label) ELSE None

\* Local calls checked like remote ones.
check_call_local_too(ctx) ==
    IF ctx.def # None THEN None ELSE label_extra(ctx.label)

\* The check_call closure of check_function.
check_call(ctx) ==
    CASE ctx.kind = "Remote" -> IF ctx.def # None THEN None ELSE label_extra(ctx.label)
      [] ctx.kind = "Local" -> None

\* The make_diag closure of check_function.
make_diag(def, diag_extra, range) == Some(make_diagnostic(def.file.file_id, range, diag_extra))

\* The diagnostic the make_diag closure returned, pushed.
pushed(diags, diag) == IF diag = None THEN diags ELSE Append(diags, diag.v)

\* One call found: check_call decides, make_diag builds.
found_call(diags, def, call, extra) ==
    IF extra = None THEN diags ELSE pushed(diags, make_diag(def, extra.v[1], call.range))

\* find_call_in_function with the matcher FunctionMatch::any(): every call of
\* the function, in traversal order.
RECURSIVE find_call_in_function(_, _, _)
find_call_in_function(diags, def, calls) ==
    IF calls = <<>> THEN diags
    ELSE find_call_in_function(found_call(diags, def, Head(calls), check_call(Head(calls))),
                               def, Tail(calls))

check_function(diags, def) == find_call_in_function(diags, def, def.calls)

\* The closure of for_each: |(_arity, def)| if def.file.file_id == file_id {..}
for_each_def(diagnostics, def, file_id) ==
    IF def.file.file_id = file_id THEN check_function(diagnostics, def) ELSE diagnostics

RECURSIVE for_each(_, _, _)
for_each(diagnostics, functions, file_id) ==
    IF functions = <<>> THEN diagnostics
    ELSE for_each(for_each_def(diagnostics, Head(functions), file_id), Tail(functions), file_id)

undefined_function(diagnostics, sema, file_id) == for_each(diagnostics, sema, file_id)

DiagInit ==
    /\ uf \in {[pc |-> "start", file_id |-> f, functions |-> fs, before |-> ds,
                diagnostics |-> ds] :
                  f \in {"main"}, fs \in DefMaps, ds \in {<<>>, <<OtherDiagnostic>>}}
    /\ WalkParked /\ CacheInit /\ gl = Parked /\ MoreParked

RunUndefinedFunction ==
    /\ uf.pc = "start"
    /\ uf' = [uf EXCEPT !.pc = "done",
                        !.diagnostics = undefined_function(uf.diagnostics, uf.functions,
                                                           uf.file_id)]
    /\ UNCHANGED <<walk_vars, cache_vars, gl, more_vars>>

DiagNext == RunUndefinedFunction

DiagSpec == DiagInit /\ [][DiagNext]_vars

\* The calls of the functions defined in the checked file, by position.
CallsInFile ==
    {p \in (1..MaxFunctions) \X (1..MaxCalls) :
        /\ p[1] \in DOMAIN uf.functions
        /\ p[2] \in DOMAIN uf.functions[p[1]].calls
        /\ uf.functions[p[1]].file.file_id = uf.file_id}

TheCall(p) == uf.functions[p[1]].calls[p[2]]

\* What the run appended to the caller's diagnostics.
Appended == SubSeq(uf.diagnostics, Len(uf.before) + 1, Len(uf.diagnostics))

AppendedOnly ==
    /\ Len(uf.diagnostics) >= Len(uf.before)
    /\ SubSeq(uf.diagnostics, 1, Len(uf.before)) = uf.before

WithRange(r) == {k \in 1..Len(Appended) : Appended[k].range = r}

Ranges == {TheCall(p).range : p \in CallsInFile}

\* C18 as stated: one Warning at the call's range for each remote call that
\* resolves to no definition, none for a remote call that resolves.
UndefinedRemoteReported ==
    uf.pc = "done" =>
        /\ AppendedOnly
        /\ \A k \in 1..Len(Appended) :
              Appended[k].severity = "Warning" /\ Appended[k].range \in Ranges
        /\ \A r \in Ranges :
              Cardinality(WithRange(r))
                  = Cardinality({p \in CallsInFile :
                                    /\ TheCall(p).range = r
                                    /\ TheCall(p).kind = "Remote"
                                    /\ TheCall(p).def = None})

\* C18 (amended): one Warning at the call's reported range for each remote
\* call that resolves to no definition and whose target has a label, none for
\* a remote call that resolves or whose target has no label.
UndefinedLabelledRemoteReported ==
    uf.pc = "done" =>
        /\ AppendedOnly
        /\ \A k \in 1..Len(Appended) :
              Appended[k].severity = "Warning" /\ Appended[k].range \in Ranges
        /\ \A r \in Ranges :
              Cardinality(WithRange(r))
                  = Cardinality({p \in CallsInFile :
                                    /\ TheCall(p).range = r
                                    /\ TheCall(p).kind = "Remote"
                                    /\ TheCall(p).def = None
                                    /\ TheCall(p).label # None})

UndefinedRemoteWitness ==
    /\ uf.pc = "done" /\ uf.before = <<OtherDiagnostic>>
    /\ Len(uf.functions) = 1 /\ Len(uf.functions[1].calls) = 2
    /\ uf.functions[1].file.file_id = uf.file_id
    /\ uf.functions[1].calls[1].kind = "Remote" /\ uf.functions[1].calls[1].def # None
    /\ uf.functions[1].calls[2].kind = "Remote" /\ uf.functions[1].calls[2].def = None
    /\ uf.diagnostics
          = <<OtherDiagnostic, make_diagnostic("main", <<1, 2>>, "dependency:not_exists/0")>>

\* C19 (local calls): no diagnostic is appended for a local call, defined or
\* not, and a file whose functions hold only local calls gets none.
LocalNeverReported ==
    uf.pc = "done" =>
        /\ \A p \in CallsInFile : TheCall(p).kind = "Local" => WithRange(TheCall(p).range) = {}
        /\ (\A p \in CallsInFile : TheCall(p).kind = "Local") => uf.diagnostics = uf.before

LocalNeverReportedWitness ==
    /\ uf.pc = "done" /\ uf.diagnostics = uf.before
    /\ Len(uf.functions) = 1 /\ Len(uf.functions[1].calls) = 2
    /\ uf.functions[1].file.file_id = uf.file_id
    /\ uf.functions[1].calls[1].kind = "Local" /\ uf.functions[1].calls[1].def # None
    /\ uf.functions[1].calls[2].kind = "Local" /\ uf.functions[1].calls[2].def = None

-----------------------------------------------------------------------------
(* The indexer's line facts: GleanIndexer::line_fact *)

\* The longest file content, in bytes.
MaxBytes == 4
Bytes == {"a", "\r", "\n"}
FileContents == UNION {[1..n -> Bytes] : n \in 0..MaxBytes}

\* LineIndex: the offsets at which lines start, the first line's 0 and then
\* the offset after each "\n".
RECURSIVE newlines_from(_, _)
newlines_from(text, i) ==
    IF i > Len(text) THEN <<>>
    ELSE (IF text[i] = "\n" THEN <<i>> ELSE <<>>) \o newlines_from(text, i + 1)

LineIndex_new(text) == [newlines |-> <<0>> \o newlines_from(text, 1)]

\* line_index.line_at(line): the start of the line numbered from 0, if any.
line_at(line_index, line) ==
    IF line + 1 \in DOMAIN line_index.newlines THEN Some(line_index.newlines[line + 1])
    ELSE None

\* content.ends_with("\n")
ends_with_newline(text) == Len(text) > 0 /\ text[Len(text)] = "\n"

\* FileLinesFact::new(file_id, lengths, ends_with_new_line)
FileLinesFact_new(file_id, lengths, ends_with_new_line) ==
    [key |-> [file_id |-> file_id, lengths |-> lengths,
              ends_with_new_line |-> ends_with_new_line, unicode_or_tabs |-> TRUE]]

\* while let Some(offset) = line_index.line_at(line) { .. }: the lengths
\* pushed and the last offset seen.  Offsets and lengths are u32; a line
\* index holds offsets below 2^32 only, so no subtraction here wraps.
RECURSIVE while_line_at(_, _, _, _)
while_body(line_index, line, prev_offset, lengths, offset) ==
    IF offset = None THEN [lengths |-> lengths, prev_offset |-> prev_offset]
    ELSE while_line_at(line_index, line + 1, offset.v, Append(lengths, offset.v - prev_offset))

while_line_at(line_index, line, prev_offset, lengths) ==
    while_body(line_index, line, prev_offset, lengths, line_at(line_index, line))

\* let len = if content.len() as u32 >= prev_offset { .. } else { 0 };
last_len(text, prev_offset) ==
    IF Len(text) >= prev_offset THEN Len(text) - prev_offset ELSE 0

\* The part of line_fact after the loop.
after_loop(file_id, text, loop) ==
    IF ~ends_with_newline(text)
    THEN FileLinesFact_new(file_id, Append(loop.lengths, last_len(text, loop.prev_offset)),
                           FALSE)
    ELSE FileLinesFact_new(file_id, loop.lengths, TRUE)

\* The loop started at the file's first line, whose start is offset 0.
line_fact_from_line_0(file_id, line_index, text) ==
    after_loop(file_id, text, while_line_at(line_index, 0, 0, <<>>))

line_fact(file_id, line_index, text) ==
    after_loop(file_id, text, while_line_at(line_index, 1, 0, <<>>))

GleanInit ==
    /\ gl \in {[pc |-> "start", file_id |-> 1, text |-> c, line_index |-> LineIndex_new(c),
                line_fact |-> None] : c \in FileContents}
    /\ WalkParked /\ CacheInit /\ uf = Parked /\ MoreParked

IndexLineFact ==
    /\ gl.pc = "start"
    /\ gl' = [gl EXCEPT !.pc = "done",
                        !.line_fact = line_fact(gl.file_id, gl.line_index, gl.text)]
    /\ UNCHANGED <<walk_vars, cache_vars, uf, more_vars>>

GleanNext == IndexLineFact

GleanSpec == GleanInit /\ [][GleanNext]_vars

RECURSIVE Sum(_)
Sum(v) == IF v = <<>> THEN 0 ELSE Head(v) + Sum(Tail(v))

\* The offsets just after a newline of the text.
AfterNewline(text) == {i \in 1..Len(text) : text[i] = "\n"}

\* C20 (line facts): ends_with_new_line tells whether the content ends with a
\* newline; lengths has one entry per line start the line index reports, the
\* distance from the previous line start, and one more for the unterminated
\* last line exactly when the content does not end with a newline; the
\* lengths sum to the content's byte length.
LineFacts ==
    gl.pc = "done" =>
        /\ gl.line_fact.key.ends_with_new_line
              <=> (gl.text # <<>> /\ gl.text[Len(gl.text)] = "\n")
        /\ Len(gl.line_fact.key.lengths)
              = Cardinality(AfterNewline(gl.text))
                    + (IF gl.line_fact.key.ends_with_new_line THEN 0 ELSE 1)
        /\ \A k \in 1..Cardinality(AfterNewline(gl.text)) :
              /\ Sum(SubSeq(gl.line_fact.key.lengths, 1, k)) \in AfterNewline(gl.text)
              /\ Cardinality({i \in AfterNewline(gl.text) :
                                 i <= Sum(SubSeq(gl.line_fact.key.lengths, 1, k))}) = k
        /\ Sum(gl.line_fact.key.lengths) = Len(gl.text)

LineFactsWitness ==
    /\ gl.pc = "done" /\ gl.text = <<"a", "\n", "\n", "a">>
    /\ gl.line_fact.key.lengths = <<2, 1, 1>>
    /\ ~gl.line_fact.key.ends_with_new_line

-----------------------------------------------------------------------------
(* The indexer's span conversion: impl From<TextRange> for Location *)

\* The largest offset of a generated range.
MaxOffset == 13

\* TextRange::new(start, end), start <= end
TextRanges ==
    UNION {{[start |-> a, end |-> b] : b \in a..MaxOffset} : a \in 0..MaxOffset}

\* range.len()
TextRange_len(range) == range.end - range.start

\* `length -= 1` on a u32.  A negative result stands for the underflow: the
\* wrapped value 2^32 - 1 of a release build, the panic of a debug build.
decrement(length) == length - 1

\* The length decremented whatever it is.
aligned_always(length) == decrement(length)

\* if length > 0 { length -= 1 }
aligned(length) == IF length > 0 THEN decrement(length) ELSE length

\* impl From<TextRange> for Location
Location_from(range) == [start |-> range.start, length |-> aligned(TextRange_len(range))]

SpanInit ==
    /\ sp \in {[pc |-> "start", range |-> r, loc |-> None] : r \in TextRanges}
    /\ WalkParked /\ CacheInit /\ uf = Parked /\ gl = Parked
    /\ fr = Parked /\ ix = Parked /\ wc = Parked

ConvertSpan ==
    /\ sp.pc = "start"
    /\ sp' = [sp EXCEPT !.pc = "done", !.loc = Location_from(sp.range)]
    /\ UNCHANGED <<walk_vars, cache_vars, uf, gl, fr, ix, wc>>

SpanNext == ConvertSpan

SpanSpec == SpanInit /\ [][SpanNext]_vars

\* C21 (span conversion): the Location of a TextRange starts where the range
\* starts; its length is the range's length minus 1 when that is greater
\* than 0, and 0 when it is 0; the subtraction never underflows.
SpanConversion ==
    sp.pc = "done" =>
        /\ sp.loc.start = sp.range.start
        /\ sp.range.end > sp.range.start => sp.loc.length = sp.range.end - sp.range.start - 1
        /\ sp.range.end = sp.range.start => sp.loc.length = 0
        /\ sp.loc.length >= 0

SpanConversionWitness ==
    /\ sp.pc = "done" /\ sp.range = [start |-> 3, end |-> 3]
    /\ sp.loc = [start |-> 3, length |-> 0]

\* ---------------------------------------------------------------------------
\* Folding ranges (crates/ide/src/folding_ranges.rs).
\*
\* A file is a sequence of forms.  The definition map lists its functions and
\* its records, the form list its module-doc and doc attributes.  A function
\* whose range is not known (FunctionDef::range returns None) is a form of
\* kind "function" with range None.
\* ---------------------------------------------------------------------------

MaxForms == 3

FormKinds == {"function", "record", "module_doc", "doc", "module", "export"}

\* the i-th form of a file covers its own stretch of the text
FormRange(i) == [start |-> 2 * i, end |-> 2 * i + 1]

FormsAt(i) ==
    {[kind |-> k, range |-> Some(FormRange(i))] : k \in FormKinds}
        \cup {[kind |-> "function", range |-> None]}

RECURSIVE FormLists(_)
FormLists(n) ==
    IF n = 0 THEN {<<>>}
    ELSE FormLists(n - 1)
             \cup {Append(f, x) : f \in {g \in FormLists(n - 1) : Len(g) = n - 1},
                                  x \in FormsAt(n)}

OfKind(file, kind) == SelectSeq(file, LAMBDA f : f.kind = kind)

get_functions(file) == OfKind(file, "function")
get_records(file) == OfKind(file, "record")
module_doc_attributes(file) == OfKind(file, "module_doc")
doc_attributes(file) == OfKind(file, "doc")

FoldingRange(kind, range) == [kind |-> kind, range |-> range]

FunctionDef_folding_range_default(def) ==
    IF def.range = None THEN Some(FoldingRange("Function", [start |-> 0, end |-> 0]))
    ELSE Some(FoldingRange("Function", def.range.v))

\* impl FoldingRangeTrait for FunctionDef: `self.range(db)?`
FunctionDef_folding_range(def) ==
    IF def.range = None THEN None
    ELSE Some(FoldingRange("Function", def.range.v))

RecordDef_folding_range(def) == Some(FoldingRange("Record", def.range.v))

ModuleDocAttribute_folding_range(in_file) ==
    Some(FoldingRange("ModuleDocAttribute", in_file.range.v))

DocAttribute_folding_range(in_file) ==
    Some(FoldingRange("DocAttribute", in_file.range.v))

\* `if let Some(folding_range) = ... { folds.push(folding_range) }`
push_if_some(folds, folding_range) ==
    IF folding_range = None THEN folds ELSE Append(folds, folding_range.v)

RECURSIVE for_functions(_, _)
for_functions(folds, defs) ==
    IF defs = <<>> THEN folds
    ELSE for_functions(push_if_some(folds, FunctionDef_folding_range(Head(defs))),
                       Tail(defs))

RECURSIVE for_records(_, _)
for_records(folds, defs) ==
    IF defs = <<>> THEN folds
    ELSE for_records(push_if_some(folds, RecordDef_folding_range(Head(defs))),
                     Tail(defs))

RECURSIVE for_module_docs(_, _)
for_module_docs(folds, attrs) ==
    IF attrs = <<>> THEN folds
    ELSE for_module_docs(
             push_if_some(folds, ModuleDocAttribute_folding_range(Head(attrs))),
             Tail(attrs))

RECURSIVE for_docs(_, _)
for_docs(folds, attrs) ==
    IF attrs = <<>> THEN folds
    ELSE for_docs(push_if_some(folds, DocAttribute_folding_range(Head(attrs))),
                  Tail(attrs))

folding_ranges_no_records(file) ==
    for_docs(
        for_module_docs(for_functions(<<>>, get_functions(file)),
                        module_doc_attributes(file)),
        doc_attributes(file))

folding_ranges(file) ==
    for_docs(
        for_module_docs(
            for_records(for_functions(<<>>, get_functions(file)),
                        get_records(file)),
            module_doc_attributes(file)),
        doc_attributes(file))

FoldInit ==
    /\ fr \in {[pc |-> "start", file |-> f, folds |-> <<>>] : f \in FormLists(MaxForms)}
    /\ WalkParked /\ CacheInit /\ uf = Parked /\ gl = Parked
    /\ sp = Parked /\ ix = Parked /\ wc = Parked

ComputeFoldingRanges ==
    /\ fr.pc = "start"
    /\ fr' = [fr EXCEPT !.pc = "done", !.folds = folding_ranges(fr.file)]
    /\ UNCHANGED <<walk_vars, cache_vars, uf, gl, sp, ix, wc>>

FoldNext == ComputeFoldingRanges

FoldSpec == FoldInit /\ [][FoldNext]_vars

\* the fold kind that a form of the file is due, None when it is due none
FoldKindOf(form) ==
    CASE form.kind = "function" /\ form.range # None -> Some("Function")
      [] form.kind = "record" -> Some("Record")
      [] form.kind = "module_doc" -> Some("ModuleDocAttribute")
      [] form.kind = "doc" -> Some("DocAttribute")
      [] OTHER -> None

Foldable(file) == {i \in 1..Len(file) : FoldKindOf(file[i]) # None}

-----------------------------------------------------------------------------
(* Further properties of the walk (crates/types_db/src/eqwalizer/transformer.rs) *)

\* The invocations of the same call with no failing override, by position,
\* on which the pass's override is one that returns Err.
WouldFail ==
    {i \in 1..Len(FullLog) : ShouldFail(Before, FullLog[i].cat, FullLog[i].node)}

\* The nodes that come after position p in visit order.
Later(p) == SubSeq(FullLog, p + 1, Len(FullLog))

\* C23 (no visit after failure): once an entry-point invocation has returned
\* Err the call fails, and no entry point is invoked on a node that comes
\* later in visit order: the pass saw each later node only as often as it
\* had seen that node before the failure.
NoVisitAfterFailure ==
    (Called /\ WouldFail # {}) =>
        /\ ~result.ok
        /\ \A j \in 1..Len(Later(Min(WouldFail))) :
               Count(tr.log, Later(Min(WouldFail))[j])
                   = Count(SubSeq(FullLog, 1, Min(WouldFail)), Later(Min(WouldFail))[j])

NoVisitAfterFailureWitness ==
    /\ Called /\ entry = "expr" /\ input.tag = "Cons"
    /\ tr.mode = "fail" /\ tr.over = {"expr"}
    /\ ~result.ok /\ result.val = Visit("expr", input.h)
    /\ input.t.tag # "Cons" /\ input.t # input.h
    /\ Len(tr.log) = 2 /\ Len(FullLog) >= 3

\* The elements of a list, in index order, as nodes of category cat.
InOrder(cat, xs) == [i \in 1..Len(xs) |-> Visit(cat, xs[i])]

\* An optional child: the node when it is present.
IfPresent(cat, o) == IF o = None THEN <<>> ELSE <<Visit(cat, o.v)>>

Generators == {"LGenerate", "BGenerate", "MGenerate"}

OrderedExprs ==
    {"TryOfCatchExpr", "ReceiveWithTimeout", "LComprehension", "BComprehension",
     "MComprehension"}

\* The variants whose order of visit is laid down.
HasVisitOrder ==
    /\ DefaultAtTop
    /\ \/ entry \in {"ast", "body", "guard", "clause", "binary_elem", "pat_binary_elem"}
       \/ entry = "expr" /\ input.tag \in OrderedExprs
       \/ entry = "qualifier" /\ input.tag \in Generators

\* The children of a node in the order laid down for its variant.
VisitOrder(cat, node) ==
    CASE cat = "ast" -> InOrder("form", node)
      [] cat = "body" -> InOrder("expr", node.exprs)
      [] cat = "guard" -> InOrder("test", node.tests)
      [] cat = "clause" ->
            InOrder("pat", node.pats) \o InOrder("guard", node.guards)
                \o <<Visit("body", node.body)>>
      [] cat = "binary_elem" -> <<Visit("expr", node.expr)>> \o IfPresent("expr", node.size)
      [] cat = "pat_binary_elem" -> <<Visit("pat", node.pat)>> \o IfPresent("expr", node.size)
      [] cat = "qualifier" /\ node.tag = "MGenerate" ->
            <<Visit("pat", node.k_pat), Visit("pat", node.v_pat), Visit("expr", node.expr)>>
      [] cat = "qualifier" /\ node.tag \in {"LGenerate", "BGenerate"} ->
            <<Visit("pat", node.pat), Visit("expr", node.expr)>>
      [] cat = "expr" /\ node.tag = "TryOfCatchExpr" ->
            <<Visit("body", node.try_body)>> \o InOrder("clause", node.try_clauses)
                \o InOrder("clause", node.catch_clauses) \o IfPresent("body", node.after_body)
      [] cat = "expr" /\ node.tag = "ReceiveWithTimeout" ->
            InOrder("clause", node.clauses)
                \o <<Visit("expr", node.timeout), Visit("body", node.timeout_body)>>
      [] cat = "expr" /\ node.tag = "MComprehension" ->
            <<Visit("expr", node.k_template), Visit("expr", node.v_template)>>
                \o InOrder("qualifier", node.qualifiers)
      [] cat = "expr" /\ node.tag \in {"LComprehension", "BComprehension"} ->
            <<Visit("expr", node.template)>> \o InOrder("qualifier", node.qualifiers)

\* C24 (visit order): the entry-point invocations of a call are those of its
\* children taken left to right in the order of the variant: clause =
\* patterns, guards, body; TryOfCatchExpr = try body, of-clauses, catch
\* clauses, after body; ReceiveWithTimeout = clauses, timeout, timeout body;
\* comprehension = template(s), qualifiers; generator = pattern(s),
\* expression; binary element = value, size; list elements in index order.
VisitOrderPerVariant ==
    HasVisitOrder => tr.log = RunKids(AtTop, VisitOrder(entry, input)).log

VisitOrderWitness ==
    /\ HasVisitOrder /\ result.ok /\ entry = "clause"
    /\ {"pat", "guard", "body"} \subseteq tr.over
    /\ Len(input.pats) >= 2 /\ Len(input.guards) >= 1
    /\ tr.log[1] = Visit("clause", input) /\ tr.log[2] = Visit("pat", input.pats[1])
    /\ \E j, k, l \in 3..Len(tr.log) :
           /\ j < k /\ k < l
           /\ tr.log[j] = Visit("pat", input.pats[2])
           /\ tr.log[k] = Visit("guard", input.guards[1])
           /\ tr.log[l] = Visit("body", input.body)

\* The number of cells of a cons chain, and what follows its i-th cell.
RECURSIVE Cells(_)
Cells(c) == IF c.t.tag = "Cons" THEN 1 + Cells(c.t) ELSE 1

RECURSIVE After(_, _)
After(c, i) == IF i = 0 THEN c ELSE After(c.t, i - 1)

IsConsWalk == DefaultAtTop /\ entry = "expr" /\ input.tag = "Cons"

\* C25 (cons refold): the default walk of an expression cons chain with heads
\* h1..hn, cell locations l1..ln and terminal tail t passes h1..hn in that
\* order and then t through transform_expr, each exactly once, and returns
\* a chain whose i-th cell has location li and head transform(hi) and whose
\* tail after the n-th cell is transform(t).
ConsRefold ==
    IsConsWalk =>
        /\ tr.log = RunKids(AtTop, ConsKids(input)).log
        /\ result.ok =>
              /\ \A i \in 1..Cells(input) :
                    /\ After(result.val, i - 1).tag = "Cons"
                    /\ After(result.val, i - 1).location = After(input, i - 1).location
                    /\ After(result.val, i - 1).h = ElemVal("expr", After(input, i - 1).h)
              /\ After(result.val, Cells(input))
                    = ElemVal("expr", After(input, Cells(input)))

ConsRefoldWitness ==
    /\ IsConsWalk /\ result.ok /\ Cells(input) = 3
    /\ tr.mode = "replace" /\ tr.over = {"expr"}
    /\ input.location # input.t.t.location
    /\ result.val.location = input.location
    /\ result.val.t.h = input.t.h
    /\ result.val.t.t.location = input.t.t.location
    /\ result.val.t.t.h = Replacement("expr") /\ input.t.t.h # Replacement("expr")
    /\ result.val.t.t.t = input.t.t.t

\* The cons variant of each category that has one.
ConsTag(cat) ==
    CASE cat = "expr" -> "Cons" [] cat = "pat" -> "PatCons" [] cat = "test" -> "TestCons"

\* A call on a cons list whose pass records the calls on the category.
IsListWalk ==
    /\ Called /\ entry \in {"expr", "pat", "test"} /\ entry \in tr.over
    /\ input.tag = ConsTag(entry)

\* The number of elements of a cons list, and its terminal tail.
RECURSIVE Elements(_, _)
Elements(cat, c) == IF c.t.tag = ConsTag(cat) THEN 1 + Elements(cat, c.t) ELSE 1

RECURSIVE TerminalTail(_, _)
TerminalTail(cat, c) == IF c.t.tag = ConsTag(cat) THEN TerminalTail(cat, c.t) ELSE c.t

Max(S) == CHOOSE x \in S : \A y \in S : x >= y

\* The depth of the call stack at the call on the terminal tail of the list:
\* the tail is the last node of the list to be visited.
TailDepth ==
    tr.depths[Max({i \in 1..Len(tr.log) :
                      tr.log[i] = Visit(entry, TerminalTail(entry, input))})]

\* C26 (iterative list walk): for a cons list of n elements in any category
\* (expression, pattern, guard test) the nesting depth of the entry-point
\* calls made for the chain stays constant: the call on the terminal tail is
\* nested directly in the call on the list, whatever n is.
IterativeListWalk ==
    (IsListWalk /\ result.ok) => TailDepth = tr.depths[1] + 1

\* A pattern list of two elements whose terminal tail is reached one call
\* deeper than the tail of an expression list is.
RecursiveListWalkWitness ==
    /\ IsListWalk /\ result.ok /\ entry = "pat" /\ tr.mode = "log"
    /\ Elements(entry, input) = 2
    /\ tr.depths[1] = 1 /\ TailDepth = 3

-----------------------------------------------------------------------------
(* The loop of walk_cons, one turn at a time.  wc holds the locals of the    *)
(* function: the list it was called with (c), the cell the loop is at        *)
(* (cons), the heads transformed so far, the transformer, and what the       *)
(* function returned.                                                        *)

MaxTurns == 4

ConsLists == {e \in Inputs("expr") : e.tag = "Cons"}

\* The cell after a cell, kept the same: the loop does not move on.
advance_stay(cons) == cons

\* `Expr::Cons(c) => cons = c`
advance(cons) == cons.t

\* The `exp =>` arm: the terminal tail returned transformed_t.
turn_return(w, h, transformed_t) ==
    IF ~transformed_t.ok
    THEN [w EXCEPT !.pc = "returned", !.tr = transformed_t.tr,
                   !.ret = [ok |-> FALSE, val |-> transformed_t.val]]
    ELSE [w EXCEPT !.pc = "returned", !.tr = transformed_t.tr,
                   !.transformed_elems = Append(@, <<w.cons.location, h.val>>),
                   !.ret = [ok |-> TRUE,
                            val |-> refold(Append(w.transformed_elems,
                                                  <<w.cons.location, h.val>>),
                                           transformed_t.val)]]

\* One turn of the loop, after the head of the cell returned h.
turn(w, h) ==
    IF ~h.ok
    THEN [w EXCEPT !.pc = "returned", !.tr = h.tr, !.ret = [ok |-> FALSE, val |-> h.val]]
    ELSE IF w.cons.t.tag = "Cons"
         THEN [w EXCEPT !.cons = advance(w.cons), !.tr = h.tr,
                        !.transformed_elems = Append(@, <<w.cons.location, h.val>>)]
         ELSE turn_return(w, h, transform_expr(h.tr, w.cons.t))

LoopInit ==
    /\ wc \in {[pc |-> "loop", c |-> c, cons |-> c, transformed_elems |-> <<>>,
                tr |-> Enter(p), ret |-> None] : c \in ConsLists, p \in Passes}
    /\ WalkParked /\ CacheInit /\ uf = Parked /\ gl = Parked
    /\ sp = Parked /\ fr = Parked /\ ix = Parked

LoopTurn ==
    /\ wc.pc = "loop"
    /\ Len(wc.transformed_elems) < MaxTurns
    /\ wc' = turn(wc, transform_expr(wc.tr, wc.cons.h))
    /\ UNCHANGED <<walk_vars, cache_vars, uf, gl, sp, fr, ix>>

LoopNext == LoopTurn

\* The walk is a synchronous computation on one call stack: a turn that can
\* be taken is taken.
LoopSpec == LoopInit /\ [][LoopNext]_vars /\ WF_vars(LoopNext)

\* C27 (termination): the loop of the cons walk ends: every walk of a cons
\* list returns, Ok or Err, once it has reached the terminal non-cons tail
\* or a head has failed.
ConsWalkTerminates == <>(wc.pc = "returned")

ConsWalkTerminatesWitness ==
    /\ wc.pc = "returned" /\ wc.ret.ok
    /\ Elements("expr", wc.c) = 3 /\ Len(wc.transformed_elems) = 3
    /\ wc.cons.t = TerminalTail("expr", wc.c)
    /\ wc.ret.val = walk_cons(Enter([wc.tr EXCEPT !.log = <<>>, !.depths = <<>>, !.depth = 0]),
                              wc.c).val

\* The default values that are present among the fields of a record
\* declaration, in field order.
RECURSIVE Defaults(_)
Defaults(fields) ==
    IF fields = <<>> THEN <<>>
    ELSE IfPresent("expr", Head(fields).default_value) \o Defaults(Tail(fields))

IsFormWalk == DefaultAtTop /\ entry = "form"

\* C28 (form walk frame): the default walk of a form invokes transform_clause
\* on the clauses of a FunDecl and transform_expr on the present default
\* values of the fields of an ExternalRecDecl, and nothing else; a form of any
\* other variant comes back unchanged with no entry-point invocation, and a
\* record field keeps everything but its default value.
FormWalkFrame ==
    IsFormWalk =>
        /\ input.tag \notin {"FunDecl", "ExternalRecDecl"} =>
              /\ result.ok /\ result.val = input
              /\ tr.log = AtTop.log
        /\ input.tag = "FunDecl" =>
              /\ tr.log = RunKids(AtTop, InOrder("clause", input.clauses)).log
              /\ result.ok =>
                    /\ result.val.location = input.location
                    /\ result.val.id = input.id
        /\ input.tag = "ExternalRecDecl" =>
              /\ tr.log = RunKids(AtTop, Defaults(input.fields)).log
              /\ result.ok =>
                    /\ result.val.location = input.location
                    /\ result.val.name = input.name
                    /\ result.val.file = input.file
                    /\ Len(result.val.fields) = Len(input.fields)
                    /\ \A k \in 1..Len(input.fields) :
                          /\ result.val.fields[k].name = input.fields[k].name
                          /\ result.val.fields[k].tp = input.fields[k].tp
                          /\ result.val.fields[k].default_value.tag
                                = input.fields[k].default_value.tag

FormWalkFrameWitness ==
    /\ IsFormWalk /\ result.ok /\ input.tag = "ExternalRecDecl"
    /\ tr.mode = "replace" /\ "expr" \in tr.over
    /\ Len(input.fields) = 2
    /\ input.fields[1].default_value # None
    /\ result.val.fields[1].default_value = Some(Replacement("expr"))
    /\ result.val.fields[1].tp = "term"
    /\ result.val.fields[2] = input.fields[2]
    /\ tr.log[1] = Visit("expr", input.fields[1].default_value.v)

-----------------------------------------------------------------------------
(* Indexing the files of a project (crates/elp/src/bin/glean.rs).  ix holds  *)
(* the loaded files, the module asked for, if any, the facts collected so    *)
(* far (ctx), the position of the loop over the files and what index_facts   *)
(* returned.  A query on the database may fail at any call.                  *)

MaxFiles == 2

FileIds == 1..MaxFiles

LoadedProject == "p"

\* Where a file is: a path of the file system, under the project root or not,
\* valid UTF-8 or not, or a path that is none of the file system.
VfsPaths ==
    {[real |-> TRUE, under_root |-> TRUE, utf8 |-> TRUE, rel |-> "src/m.erl"],
     [real |-> TRUE, under_root |-> TRUE, utf8 |-> FALSE, rel |-> "src/?.erl"],
     [real |-> TRUE, under_root |-> FALSE, utf8 |-> TRUE, rel |-> "/otp/lists.erl"],
     [real |-> FALSE, under_root |-> FALSE, utf8 |-> TRUE, rel |-> "virtual"]}

\* What the database answers for a file: its project, its text and whether
\* it holds a module.
LoadedFiles ==
    [path : VfsPaths, project : {None, Some(LoadedProject), Some("other")},
     text : {<<"a", "\n">>}, module : BOOLEAN]

\* Which of the queries made by one call of index_file succeed.
Answers ==
    [project_id : BOOLEAN, line_index : BOOLEAN, module_index : BOOLEAN,
     declaration_fact : BOOLEAN]

IndexedFacts_new ==
    [file_facts |-> <<>>, file_line_facts |-> <<>>, declaration_facts |-> <<>>,
     xref_facts |-> <<>>]

FileFact_new(file_id, file_path) == [file_id |-> file_id, file_path |-> file_path]

\* as_path()?, strip_prefix(root)?, to_str()?
file_fact(file_id, path) ==
    IF ~path.real THEN None
    ELSE IF ~path.under_root THEN None
    ELSE IF ~path.utf8 THEN None
    ELSE Some(FileFact_new(file_id, path.rel))

\* The file fact pushed without its line fact.
push_file_fact_only(facts, file_fact_, line_fact_) ==
    [facts EXCEPT !.file_facts = Append(@, file_fact_)]

\* facts.file_facts.push(file_fact); facts.file_line_facts.push(line_fact);
push_facts(facts, file_fact_, line_fact_) ==
    [facts EXCEPT !.file_facts = Append(@, file_fact_),
                  !.file_line_facts = Append(@, line_fact_)]

\* The end of index_file, from `let module_index = ..?` on.
index_declarations(file_id, file, facts, q) ==
    IF ~q.module_index THEN [ok |-> FALSE, facts |-> facts]
    ELSE IF file.module /\ q.declaration_fact
         THEN [ok |-> TRUE,
               facts |-> [facts EXCEPT !.declaration_facts = Append(@, file_id)]]
         ELSE [ok |-> TRUE, facts |-> facts]

\* index_file, from `let file_fact = match ..` on.
index_file_facts(file_id, file, facts, q, file_fact_) ==
    IF file_fact_ = None THEN [ok |-> TRUE, facts |-> facts]
    ELSE index_declarations(
             file_id, file,
             push_facts(facts, file_fact_.v,
                        line_fact(file_id, LineIndex_new(file.text), file.text)),
             q)

\* index_file(file_id, path, facts): Ok or Err, and the facts as the call
\* left them.
index_file(file_id, file, facts, q) ==
    IF ~q.project_id THEN [ok |-> FALSE, facts |-> facts]
    ELSE IF file.project = None THEN [ok |-> TRUE, facts |-> facts]
    ELSE IF file.project.v # LoadedProject THEN [ok |-> TRUE, facts |-> facts]
    ELSE IF ~q.line_index THEN [ok |-> FALSE, facts |-> facts]
    ELSE index_file_facts(file_id, file, facts, q, file_fact(file_id, file.path))

IndexInit ==
    /\ ix \in {[pc |-> "start", files |-> f, module |-> m, next |-> 1,
                ctx |-> IndexedFacts_new, calls |-> <<>>, ret |-> None] :
                   f \in [FileIds -> LoadedFiles],
                   m \in {None} \cup {Some(i) : i \in FileIds}}
    /\ WalkParked /\ CacheInit /\ uf = Parked /\ gl = Parked
    /\ sp = Parked /\ fr = Parked /\ wc = Parked

\* What index_facts returns when it ends with the facts ctx.
Returns(ok, ctx) == IF ok THEN [ok |-> TRUE, val |-> ctx] ELSE [ok |-> FALSE, val |-> None]

IndexOne(w, r) ==
    [w EXCEPT !.pc = "done", !.ctx = r.facts, !.ret = Returns(r.ok, r.facts),
              !.calls = Append(@, [file_id |-> w.module.v, ok |-> r.ok])]

\* index_facts with a module given: one call of index_file, its Err returned.
\* module_index(project_id)? may fail first.
IndexModule ==
    /\ ix.pc = "start" /\ ix.module # None
    /\ \E module_index_ok \in BOOLEAN, q \in Answers :
           ix' = IF ~module_index_ok THEN [ix EXCEPT !.pc = "done", !.ret = Returns(FALSE, ix.ctx)]
                 ELSE IndexOne(ix, index_file(ix.module.v, ix.files[ix.module.v],
                                              ix.ctx, q))
    /\ UNCHANGED <<walk_vars, cache_vars, uf, gl, sp, fr, wc>>

Indexed(w, r) ==
    [w EXCEPT !.pc = "loop", !.ctx = r.facts, !.next = @ + 1,
              !.calls = Append(@, [file_id |-> w.next, ok |-> r.ok])]

\* One turn of `for (file_id, path) in self.loaded.vfs.iter()`: an Err of
\* index_file is logged and the loop goes on.
IndexFile ==
    /\ ix.pc \in {"start", "loop"} /\ ix.module = None
    /\ ix.next \in FileIds
    /\ \E q \in Answers :
           ix' = Indexed(ix, index_file(ix.next, ix.files[ix.next], ix.ctx, q))
    /\ UNCHANGED <<walk_vars, cache_vars, uf, gl, sp, fr, wc>>

\* The loop is over: Ok(ctx).
IndexReturn ==
    /\ ix.pc \in {"start", "loop"} /\ ix.module = None
    /\ ix.next \notin FileIds
    /\ ix' = [ix EXCEPT !.pc = "done", !.ret = Returns(TRUE, ix.ctx)]
    /\ UNCHANGED <<walk_vars, cache_vars, uf, gl, sp, fr, wc>>

IndexerNext == IndexModule \/ IndexFile \/ IndexReturn

IndexSpec == IndexInit /\ [][IndexerNext]_vars

\* C29 (file and line facts stay paired): after any sequence of index_file
\* calls, those that return early and those that fail included, file_facts
\* and file_line_facts have the same length and their i-th entries carry
\* the same file id.
FactsPaired ==
    /\ Len(ix.ctx.file_facts) = Len(ix.ctx.file_line_facts)
    /\ \A i \in 1..Len(ix.ctx.file_facts) :
           ix.ctx.file_facts[i].file_id = ix.ctx.file_line_facts[i].key.file_id

FactsPairedWitness ==
    /\ ix.pc = "done" /\ ix.module = None
    /\ Len(ix.calls) = 2 /\ ~ix.calls[1].ok /\ ix.calls[2].ok
    /\ Len(ix.ctx.file_facts) = 2 /\ Len(ix.ctx.file_line_facts) = 2
    /\ ix.ctx.file_facts[2].file_id = 2
    /\ ix.ctx.file_line_facts[2].key.file_id = 2
    /\ ix.ctx.declaration_facts = <<2>>

====
